---------------------------- MODULE Spec2Model ----------------------------
(***************************************************************************)
(* A model of gh-skyline: the ASCII skyline renderer (package ascii), the   *)
(* orchestration in GenerateSkyline (package skyline) and the text          *)
(* rasterizer renderText (package geometry).                                *)
(*                                                                          *)
(* The three components are called from one idle state: each call draws    *)
(* its arguments from bounded sets and then runs to its return.            *)
(***************************************************************************)
EXTENDS Integers, Sequences, FiniteSets, TLC

(***************************************************************************)
(* Bounds of the model.                                                    *)
(***************************************************************************)
\* Largest contribution count of a day.
MaxCount == 3
\* Largest number of days of a grid handed to a single GenerateASCII call.
MaxGridDays == 3
\* Largest number of pixels a drawn text sets.
MaxPixels == 2
\* Largest number of parts, separated by "-", of a year range given as text.
MaxRangeParts == 3
\* Largest number of pixels of a decoded logo image.
MaxLogoPixels == 2

(***************************************************************************)
(* Program constants.                                                      *)
(***************************************************************************)
\* Rows of the ASCII grid: one per day slot of a week.
DaysPerWeek == 7
\* The year GitHub launched: the first year contributions can be asked for.
githubLaunchYear == 2008
\* The number of years from the launch year to the current year (a bound).
MaxYears == 2
\* time.Now().Year()
CurrentYear == githubLaunchYear + MaxYears - 1

\* Strings are sequences of characters.
Usernames == { <<"o", "c", "t">>, <<"h", "u", "b">> }
Years == githubLaunchYear..CurrentYear
\* The user name and year a rendering is labelled with.
FooterLabels == { <<<<"o","c","t">>, githubLaunchYear>>, <<<<"h","u","b">>, CurrentYear>> }

Max(a, b) == IF a >= b THEN a ELSE b
Min(a, b) == IF a <= b THEN a ELSE b

(***************************************************************************)
(* Strings.                                                                *)
(***************************************************************************)
Digit(d) == CASE d = 0 -> "0" [] d = 1 -> "1" [] d = 2 -> "2" [] d = 3 -> "3"
              [] d = 4 -> "4" [] d = 5 -> "5" [] d = 6 -> "6" [] d = 7 -> "7"
              [] d = 8 -> "8" [] OTHER -> "9"

\* fmt.Sprintf("%d", n) for n >= 0.
RECURSIVE Itoa(_)
Itoa(n) == IF n < 10 THEN <<Digit(n)>> ELSE Itoa(n \div 10) \o <<Digit(n % 10)>>

\* The zero padding of %0<width>d.
RECURSIVE PadZero(_, _)
PadZero(s, width) == IF Len(s) >= width THEN s ELSE PadZero(<<"0">> \o s, width)

LowerRune(c) == CASE c = "S" -> "s" [] c = "T" -> "t" [] c = "L" -> "l" [] OTHER -> c

ToLower(s) == [i \in 1..Len(s) |-> LowerRune(s[i])]

HasSuffix(s, suffix) ==
    /\ Len(s) >= Len(suffix)
    /\ SubSeq(s, Len(s) - Len(suffix) + 1, Len(s)) = suffix

Contains(s, c) == \E i \in 1..Len(s) : s[i] = c

\* strings.Trim(s, cutset) for a cutset of one character.
RECURSIVE TrimLeft(_, _)
TrimLeft(s, c) == IF s # <<>> /\ Head(s) = c THEN TrimLeft(Tail(s), c) ELSE s

RECURSIVE TrimRight(_, _)
TrimRight(s, c) ==
    IF s # <<>> /\ s[Len(s)] = c THEN TrimRight(SubSeq(s, 1, Len(s) - 1), c) ELSE s

Trim(s, c) == TrimRight(TrimLeft(s, c), c)

(***************************************************************************)
(* Errors: a kind, a message and the message of the error wrapped.         *)
(***************************************************************************)
Nil == [type |-> "nil", msg |-> "", cause |-> ""]
NewError(type, msg, cause) == [type |-> type, msg |-> msg, cause |-> cause.msg]
\* The error a collaborator outside this model reports.
ApiError == [type |-> "api", msg |-> "api failure", cause |-> ""]
LogError == [type |-> "log", msg |-> "log write failure", cause |-> ""]
StlError == [type |-> "STLError", msg |-> "stl failure", cause |-> ""]
FontError == [type |-> "os", msg |-> "font failure", cause |-> ""]
ErrInvalidGrid == [type |-> "ValidationError", msg |-> "invalid grid", cause |-> ""]

(***************************************************************************)
(* package ascii: the block runes.  The legend of the root command gives   *)
(* one body rune per level, shared by the foundation and the middle of a   *)
(* column, and one spire rune per level.                                   *)
(***************************************************************************)
EmptyBlock     == " "
FutureBlock    == "."
FoundationLow  == "low"
FoundationMed  == "med"
FoundationHigh == "high"
MiddleLow      == "low"
MiddleMed      == "med"
MiddleHigh     == "high"
TopLow         == "spire-low"
TopMed         == "spire-med"
TopHigh        == "spire-high"
\* Any character of the header or of the footer that is not a block rune.
TextRune       == "x"

BodyRunes  == {FoundationLow, FoundationMed, FoundationHigh,
               MiddleLow, MiddleMed, MiddleHigh}
SpireRunes == {TopLow, TopMed, TopHigh}

(***************************************************************************)
(* Height classifier.  normalized = num / den with den >= 1; the           *)
(* comparisons with 1/3 and 2/3 are made on the cross products, which is   *)
(* what the float64 comparison yields for counts of this size.             *)
(***************************************************************************)
\* The two upper levels taken for each other.
HeightLevelUpperSwapped(num, den) ==
    IF num = 0 THEN "Sky"
    ELSE IF 3 * num <= den THEN "Low"
    ELSE IF 3 * num <= 2 * den THEN "High"
    ELSE "Medium"

HeightLevelStrict(num, den) ==
    IF num = 0 THEN "Sky"
    ELSE IF 3 * num < den THEN "Low"
    ELSE IF 3 * num < 2 * den THEN "Medium"
    ELSE "High"

HeightLevel(num, den) ==
    IF num = 0 THEN "Sky"
    ELSE IF 3 * num <= den THEN "Low"
    ELSE IF 3 * num <= 2 * den THEN "Medium"
    ELSE "High"

StackRoleLastIsTop(dayIdx, nonZeroCount) ==
    IF dayIdx = nonZeroCount - 1 THEN "Top"
    ELSE IF dayIdx = 0 THEN "Foundation"
    ELSE "Middle"

StackRole(dayIdx, nonZeroCount) ==
    IF dayIdx = 0 THEN "Foundation"
    ELSE IF dayIdx = nonZeroCount - 1 THEN "Top"
    ELSE "Middle"

\* The rune of a contributing day: f(level, role).
BlockRune(level, role) ==
    CASE role = "Foundation" ->
            (CASE level = "Low" -> FoundationLow
               [] level = "Medium" -> FoundationMed
               [] OTHER -> FoundationHigh)
      [] role = "Middle" ->
            (CASE level = "Low" -> MiddleLow
               [] level = "Medium" -> MiddleMed
               [] OTHER -> MiddleHigh)
      [] OTHER ->
            (CASE level = "Low" -> TopLow
               [] level = "Medium" -> TopMed
               [] OTHER -> TopHigh)

\* getBlock(normalized, dayIdx, nonZeroCount) with normalized = num / den.
getBlock(num, den, dayIdx, nonZeroCount) ==
    IF HeightLevel(num, den) = "Sky" THEN EmptyBlock
    ELSE BlockRune(HeightLevel(num, den), StackRole(dayIdx, nonZeroCount))

(***************************************************************************)
(* Contribution grids.  A day is [ContributionCount, Date]; Date is the    *)
(* day's ordinal in the year, and `now` is today's ordinal.                *)
(***************************************************************************)
IsAfterInclusive(day, now) == day.Date >= now

IsAfter(day, now) == day.Date > now

RECURSIVE SeqMax(_)
SeqMax(s) == IF s = <<>> THEN 0 ELSE Max(Head(s), SeqMax(Tail(s)))

\* All the days of a grid, in chronological order.
RECURSIVE Flatten(_)
Flatten(g) == IF g = <<>> THEN <<>> ELSE Head(g) \o Flatten(Tail(g))

TotalDays(g) == Len(Flatten(g))

\* The grids of count rows with at most n days in all, each week of 1 to 7 days.
RECURSIVE CountGrids(_)
CountGrids(n) ==
    {<<>>} \cup
    UNION { { <<w>> \o g : w \in [1..k -> 0..MaxCount], g \in CountGrids(n - k) }
            : k \in 1..Min(n, DaysPerWeek) }

\* The grid of days of a grid of counts: the dates run on from `first`.
RECURSIVE DatedGrid(_, _)
DatedGrid(cg, first) ==
    IF cg = <<>> THEN <<>>
    ELSE << [d \in 1..Len(Head(cg)) |->
               [ContributionCount |-> Head(cg)[d], Date |-> first + d - 1]] >>
         \o DatedGrid(Tail(cg), first + Len(Head(cg)))

(***************************************************************************)
(* GenerateASCII.                                                          *)
(***************************************************************************)
\* The banner above the grid; a blank line follows it.
HeaderTemplate == << <<TextRune, EmptyBlock, TextRune>>, <<TextRune, TextRune>> >>
HeaderLines == [i \in 1..(Len(HeaderTemplate) + 1) |->
                  [kind |-> "header",
                   runes |-> IF i <= Len(HeaderTemplate) THEN HeaderTemplate[i] ELSE <<>>]]
\* The lines below the grid (the user's name and the year): text set off by spaces.
FooterLines(username, year) ==
    << [kind |-> "footer", runes |-> <<EmptyBlock, TextRune, TextRune>>, text |-> username],
       [kind |-> "footer", runes |-> <<EmptyBlock, TextRune>>, text |-> Itoa(year)] >>

MaxContributions(grid) ==
    SeqMax([i \in 1..TotalDays(grid) |-> Flatten(grid)[i].ContributionCount])

\* A day that adds a block to its week's column.
Contributing(day, now) == day.ContributionCount > 0 /\ ~IsAfter(day, now)

\* The column of a week, top to bottom: the slots the week does not fill, its
\* non-contributing days (sky, or the placeholder of a day yet to come), then its
\* contributing days, the first of them at the bottom.
ColumnSkyBelow(week, now, maxC) ==
    LET nz   == SelectSeq(week, LAMBDA d : Contributing(d, now))
        rest == SelectSeq(week, LAMBDA d : ~Contributing(d, now))
        n    == Len(nz)
    IN  [i \in 1..n |-> getBlock(nz[n + 1 - i].ContributionCount, Max(maxC, 1), n - i, n)]
        \o [i \in 1..Len(rest) |-> IF IsAfter(rest[i], now) THEN FutureBlock ELSE EmptyBlock]
        \o [i \in 1..(DaysPerWeek - Len(week)) |-> EmptyBlock]

Column(week, now, maxC) ==
    LET nz   == SelectSeq(week, LAMBDA d : Contributing(d, now))
        rest == SelectSeq(week, LAMBDA d : ~Contributing(d, now))
        n    == Len(nz)
    IN  [i \in 1..(DaysPerWeek - Len(week)) |-> EmptyBlock]
        \o [i \in 1..Len(rest) |-> IF IsAfter(rest[i], now) THEN FutureBlock ELSE EmptyBlock]
        \o [i \in 1..n |-> getBlock(nz[n + 1 - i].ContributionCount, Max(maxC, 1), n - i, n)]

\* The grid body: DaysPerWeek lines, one rune per week.
GridLines(grid, now) ==
    [r \in 1..DaysPerWeek |->
        [kind |-> "grid",
         runes |-> [w \in 1..Len(grid) |-> Column(grid[w], now, MaxContributions(grid))[r]]]]

GenerateASCIINoCheck(grid, now, username, year, includeHeader, includeUserInfo) ==
    [err |-> Nil,
     lines |-> (IF includeHeader THEN HeaderLines ELSE <<>>)
               \o GridLines(grid, now)
               \o (IF includeUserInfo THEN FooterLines(username, year) ELSE <<>>)]

GenerateASCII(grid, now, username, year, includeHeader, includeUserInfo) ==
    IF Len(grid) = 0
    THEN [err |-> ErrInvalidGrid, lines |-> <<>>]
    ELSE [err |-> Nil,
          lines |-> (IF includeHeader THEN HeaderLines ELSE <<>>)
                    \o GridLines(grid, now)
                    \o (IF includeUserInfo THEN FooterLines(username, year) ELSE <<>>)]

(***************************************************************************)
(* package utils: the name of the output file.                             *)
(***************************************************************************)
\* FormatYearRange: YYYY for one year, YYYY-YY for a range.
\* strings.Split(s, sep) for a separator of one character.
RECURSIVE Split(_, _)
Split(s, sep) ==
    IF ~Contains(s, sep) THEN <<s>>
    ELSE LET i == CHOOSE k \in 1..Len(s) : s[k] = sep /\ \A j \in 1..(k - 1) : s[j] # sep
         IN  <<SubSeq(s, 1, i - 1)>> \o Split(SubSeq(s, i + 1, Len(s)), sep)

Digits == { Digit(d) : d \in 0..9 }
DigitValue(c) == CHOOSE d \in 0..9 : Digit(d) = c

RECURSIVE DecimalValue(_)
DecimalValue(s) ==
    IF s = <<>> THEN 0 ELSE 10 * DecimalValue(SubSeq(s, 1, Len(s) - 1)) + DigitValue(s[Len(s)])

ErrSyntax == [type |-> "strconv", msg |-> "invalid syntax", cause |-> ""]

\* strconv.Atoi(s) for numbers that fit an int: an optional sign, then digits.
Atoi(s) ==
    LET signed == s # <<>> /\ Head(s) \in {"+", "-"}
        digits == IF signed THEN Tail(s) ELSE s
    IN  IF digits = <<>> \/ \E i \in 1..Len(digits) : digits[i] \notin Digits
        THEN [val |-> 0, err |-> ErrSyntax]
        ELSE [val |-> IF signed /\ Head(s) = "-" THEN -DecimalValue(digits)
                      ELSE DecimalValue(digits),
              err |-> Nil]

Errorf(msg) == [type |-> "fmt", msg |-> msg, cause |-> ""]

\* A validation that wants the start year before the end year.
validateYearRangeStrictOrder(startYear, endYear) ==
    IF startYear < githubLaunchYear \/ endYear > CurrentYear
    THEN Errorf("years must be between 2008 and the current year")
    ELSE IF startYear >= endYear
    THEN Errorf("start year cannot be after end year")
    ELSE Nil

\* A validation that does not compare the two years.
validateYearRangeUnordered(startYear, endYear) ==
    IF startYear < githubLaunchYear \/ endYear > CurrentYear
    THEN Errorf("years must be between 2008 and the current year")
    ELSE Nil

validateYearRange(startYear, endYear) ==
    IF startYear < githubLaunchYear \/ endYear > CurrentYear
    THEN Errorf("years must be between 2008 and the current year")
    ELSE IF startYear > endYear
    THEN Errorf("start year cannot be after end year")
    ELSE Nil

YearRange(startYear, endYear, err) ==
    [startYear |-> startYear, endYear |-> endYear, err |-> err]

\* A parse that takes the first two of any number of parts.
ParseYearRangeFirstTwo(yearRange) ==
    LET parts == Split(yearRange, "-")
        first == Atoi(parts[1])
        last  == Atoi(parts[IF Len(parts) >= 2 THEN 2 ELSE 1])
    IN  IF first.err # Nil THEN YearRange(0, 0, first.err)
        ELSE IF last.err # Nil THEN YearRange(first.val, 0, last.err)
        ELSE YearRange(first.val, last.val, validateYearRange(first.val, last.val))

\* A parse that returns the years it read without validating them.
ParseYearRangeUnvalidated(yearRange) ==
    IF Contains(yearRange, "-")
    THEN LET parts == Split(yearRange, "-") IN
         IF Len(parts) # 2 THEN YearRange(0, 0, Errorf("invalid year range format"))
         ELSE LET first == Atoi(parts[1])
                  last  == Atoi(parts[2])
              IN  IF first.err # Nil THEN YearRange(0, 0, first.err)
                  ELSE IF last.err # Nil THEN YearRange(0, 0, last.err)
                  ELSE YearRange(first.val, last.val, Nil)
    ELSE LET year == Atoi(yearRange) IN
         IF year.err # Nil THEN YearRange(0, 0, year.err)
         ELSE YearRange(year.val, year.val, Nil)

ParseYearRange(yearRange) ==
    IF Contains(yearRange, "-")
    THEN LET parts == Split(yearRange, "-") IN
         IF Len(parts) # 2 THEN YearRange(0, 0, Errorf("invalid year range format"))
         ELSE LET first == Atoi(parts[1])
                  last  == Atoi(parts[2])
              IN  IF first.err # Nil THEN YearRange(0, 0, first.err)
                  ELSE IF last.err # Nil THEN YearRange(0, 0, last.err)
                  ELSE YearRange(first.val, last.val,
                                 validateYearRange(first.val, last.val))
    ELSE LET year == Atoi(yearRange) IN
         IF year.err # Nil THEN YearRange(0, 0, year.err)
         ELSE YearRange(year.val, year.val, validateYearRange(year.val, year.val))

\* rootCmd.RunE from the parse of the year flag on: the year ranges that
\* skyline.GenerateSkyline is called with, and the error returned without a call.
RunE(yearRange) ==
    LET parsed == ParseYearRange(yearRange) IN
    IF parsed.err # Nil
    THEN [err |-> Errorf("invalid year range: " \o parsed.err.msg), generated |-> <<>>]
    ELSE [err |-> Nil, generated |-> << <<parsed.startYear, parsed.endYear>> >>]

\* The years, in and just out of range, that package utils is called with.
UtilYears == (githubLaunchYear - 1)..(CurrentYear + 1)

\* The parts year ranges are written from, and the ranges of up to MaxRangeParts.
YearParts ==
    { Itoa(y) : y \in UtilYears }
       \cup { <<>>, <<"a", "b", "c">>, <<"+", "2", "0", "0", "8">>, <<"2", "0", "x", "8">> }

RECURSIVE Join(_, _)
Join(parts, sep) ==
    IF Len(parts) = 1 THEN parts[1] ELSE parts[1] \o <<sep>> \o Join(Tail(parts), sep)

YearRangeTexts ==
    UNION { { Join(parts, "-") : parts \in [1..n -> YearParts] } : n \in 1..MaxRangeParts }

\* A range for years of any number of digits.
FormatYearRangeUnpadded(startYear, endYear) ==
    IF startYear = endYear THEN Itoa(startYear)
    ELSE Itoa(startYear) \o <<"-">> \o Itoa(endYear % 100)

FormatYearRange(startYear, endYear) ==
    IF startYear = endYear THEN Itoa(startYear)
    ELSE PadZero(Itoa(startYear), 4) \o <<"-">> \o PadZero(Itoa(endYear % 100), 2)

StlSuffix == <<".", "s", "t", "l">>

\* outputFileFormat = "%s-%s-github-skyline.stl"
OutputFileFormat(user, yearStr) ==
    user \o <<"-">> \o yearStr
         \o <<"-", "g", "i", "t", "h", "u", "b", "-", "s", "k", "y", "l", "i", "n", "e">>
         \o StlSuffix

\* A file name whose suffix is looked for as it is written, in lower case.
GenerateOutputFilenameExactSuffix(user, startYear, endYear, output) ==
    IF output # <<>>
    THEN IF ~HasSuffix(output, StlSuffix) THEN output \o StlSuffix ELSE output
    ELSE OutputFileFormat(user, FormatYearRange(startYear, endYear))

\* The years a range is formatted from, and the --output values.
FormatYears == UtilYears \cup {999, 2100, 2105}
OutputNames ==
    { <<>>, <<"o">>, <<"o", ".", "s", "t", "l">>, <<"o", ".", "S", "T", "L">>,
      <<".", "s", "t", "l">>, <<"s", "t", "l">>, <<"o", ".", "s", "t", "l", "x">> }

\* A name that gets the suffix whatever the output ends in.
GenerateOutputFilenameAlwaysAppends(user, startYear, endYear, output) ==
    IF output # <<>> THEN output \o StlSuffix
    ELSE OutputFileFormat(user, FormatYearRange(startYear, endYear))

GenerateOutputFilename(user, startYear, endYear, output) ==
    IF output # <<>>
    THEN IF ~HasSuffix(ToLower(output), StlSuffix) THEN output \o StlSuffix ELSE output
    ELSE OutputFileFormat(user, FormatYearRange(startYear, endYear))

(***************************************************************************)
(* package github: Client.FetchContributions.  `api` is what the GraphQL   *)
(* request does: it fails, or it fills the response with a login and the   *)
(* weeks of the calendar.                                                  *)
(***************************************************************************)
\* A client that leaves the launch year to the API.
FetchContributionsAnyYear(username, year, api) ==
    IF username = <<>>
    THEN [err |-> NewError("ValidationError", "username cannot be empty", Nil),
          requested |-> FALSE, response |-> <<>>]
    ELSE IF api.fails
    THEN [err |-> NewError("NetworkError", "failed to fetch contributions", ApiError),
          requested |-> TRUE, response |-> <<>>]
    ELSE IF api.login = <<>>
    THEN [err |-> NewError("ValidationError",
                           "received empty username from GitHub API", Nil),
          requested |-> TRUE, response |-> <<>>]
    ELSE [err |-> Nil, requested |-> TRUE, response |-> <<api.login, api.weeks>>]

FetchContributions(username, year, api) ==
    IF username = <<>>
    THEN [err |-> NewError("ValidationError", "username cannot be empty", Nil),
          requested |-> FALSE, response |-> <<>>]
    ELSE IF year < 2008
    THEN [err |-> NewError("ValidationError",
                           "year cannot be before GitHub's launch (2008)", Nil),
          requested |-> FALSE, response |-> <<>>]
    ELSE IF api.fails
    THEN [err |-> NewError("NetworkError", "failed to fetch contributions", ApiError),
          requested |-> TRUE, response |-> <<>>]
    ELSE IF api.login = <<>>
    THEN [err |-> NewError("ValidationError",
                           "received empty username from GitHub API", Nil),
          requested |-> TRUE, response |-> <<>>]
    ELSE [err |-> Nil, requested |-> TRUE, response |-> <<api.login, api.weeks>>]

(***************************************************************************)
(* package github: Client.GetUserJoinYear.  `api` is what the GraphQL      *)
(* request does: it fails, or it leaves response.User.CreatedAt as it was  *)
(* declared or fills it with a date.                                       *)
(***************************************************************************)
\* `var response struct { User struct { CreatedAt time.Time } }`: a time.Time
\* nobody set is January 1 of the year 1.
ZeroTime == [year |-> 1, month |-> 1, day |-> 1]

\* time.Date(year, 1, 1, 0, 0, 0, 0, time.UTC)
Date(y) == [year |-> y, month |-> 1, day |-> 1]

\* t.Year()
YearOf(t) == t.year

\* The dates an answer carries: no date, the year 0, and the years around the
\* launch year up to the current one.
CreatedAts == {ZeroTime} \cup { Date(y) : y \in {0} \cup ((githubLaunchYear - 1)..CurrentYear) }

GetUserJoinYear(username, api) ==
    IF username = <<>>
    THEN [year |-> 0, requested |-> FALSE,
          err |-> NewError("ValidationError", "username cannot be empty", Nil)]
    ELSE IF api.fails
    THEN [year |-> 0, requested |-> TRUE,
          err |-> NewError("NetworkError", "failed to fetch user's join date", ApiError)]
    ELSE LET joinYear == YearOf(api.createdAt) IN
         IF joinYear = 0
         THEN [year |-> 0, requested |-> TRUE,
               err |-> NewError("ValidationError",
                                "invalid join date received from GitHub API", Nil)]
         ELSE [year |-> joinYear, requested |-> TRUE, err |-> Nil]

(***************************************************************************)
(* package skyline: fetchContributionData and the preview of a year.       *)
(***************************************************************************)
fetchContributionDataSwallow(username, year, api) ==
    LET r == FetchContributions(username, year, api) IN
    [err |-> Nil, contributions |-> IF r.err # Nil THEN <<>> ELSE r.response[2]]

fetchContributionData(username, year, api) ==
    LET r == FetchContributions(username, year, api) IN
    IF r.err # Nil
    THEN [err |-> NewError("wrapped", "failed to fetch contributions", r.err),
          contributions |-> <<>>]
    ELSE [err |-> Nil, contributions |-> r.response[2]]

\* A lifetime that ends with the endYear argument.
LifetimeRangeToArgument(argStart, argEnd, joinYear, now) == <<joinYear, argEnd>>

\* A lifetime that starts no earlier than the launch year.
LifetimeRangeFromLaunch(argStart, argEnd, joinYear, now) == <<Max(joinYear, githubLaunchYear), now>>

\* if full { ... startYear = joinYear; endYear = time.Now().Year() }
LifetimeRange(argStart, argEnd, joinYear, now) == <<joinYear, now>>

\* A year's grid put in front of the years before it.
AccumulateInFront(all, contributions) == <<contributions>> \o all

\* allContributions = append(allContributions, contributions)
Accumulate(all, contributions) == Append(all, contributions)

\* The test GenerateSkyline makes of a line to find where the grid starts.
IsGridStart(line) ==
    LET containsEmptyBlock    == Contains(line.runes, EmptyBlock)
        containsFoundationLow == Contains(line.runes, FoundationLow)
        isNotOnlyEmptyBlocks  == Trim(line.runes, EmptyBlock) # <<>>
    IN  (containsEmptyBlock \/ containsFoundationLow) /\ isNotOnlyEmptyBlocks

\* gridStart, as an index from 1: the first line that passes the test, the first
\* line of all when none does.
GridStart(lines) ==
    IF \E i \in 1..Len(lines) : IsGridStart(lines[i])
    THEN CHOOSE i \in 1..Len(lines) :
            IsGridStart(lines[i]) /\ \A j \in 1..(i - 1) : ~IsGridStart(lines[j])
    ELSE 1

\* The header is asked for in the first year only, and never with art-only.
IncludeHeaderEveryYear(yr, first, artOnlyFlag) == ~artOnlyFlag

IncludeHeader(yr, first, artOnlyFlag) == (yr = first) /\ ~artOnlyFlag

\* A failed rendering is logged as a warning and the loop goes on; GenerateSkyline
\* returns only if the warning cannot be logged, and then the logger's error.
AsciiFailureIsFatal(err, warnFails) == [returns |-> TRUE, err |-> err]

AsciiFailure(err, warnFails) ==
    IF warnFails THEN [returns |-> TRUE, err |-> LogError]
    ELSE [returns |-> FALSE, err |-> Nil]

\* An STL file written whatever the flag.
GeneratesSTLAlways(artOnlyFlag) == TRUE

\* if !artOnly { ... stl.GenerateSTL / stl.GenerateSTLRange ... }
GeneratesSTL(artOnlyFlag) == ~artOnlyFlag

\* What is printed for a year whose rendering succeeded.
Preview(lines, isFirstYear) ==
    IF isFirstYear THEN lines ELSE SubSeq(lines, GridStart(lines), Len(lines))

\* The contribution calendars the API answers with, as rows of counts.
SkyCountGrids ==
    { <<>>,
      << <<0>> >>,
      << <<1, 3>> >>,
      << <<0, 3>>, <<1>> >>,
      << <<3, 2, 1>> >>,
      << <<2>>, <<0, 0>> >> }

\* GenerateSkyline is run once the years asked for are over: every day of a
\* calendar is past (a calendar has at most 53 weeks).
SkyNow == 53 * DaysPerWeek

(***************************************************************************)
(* Rational numbers <<numerator, denominator>> in lowest terms, with a     *)
(* positive denominator, for the float64 values of package geometry.       *)
(***************************************************************************)
Abs(n) == IF n < 0 THEN -n ELSE n

RECURSIVE GCD(_, _)
GCD(a, b) == IF b = 0 THEN a ELSE GCD(b, a % b)

RNorm(n, d) ==
    LET g == GCD(Abs(n), Abs(d))
        sgn == IF d < 0 THEN -1 ELSE 1
    IN  <<sgn * (n \div g), sgn * (d \div g)>>

RInt(n) == <<n, 1>>
RMul(a, b) == RNorm(a[1] * b[1], a[2] * b[2])
RDiv(a, b) == RNorm(a[1] * b[2], a[2] * b[1])
RSub(a, b) == RNorm(a[1] * b[2] - b[1] * a[2], a[2] * b[2])
RNeg(a) == <<-a[1], a[2]>>
RPositive(a) == a[1] > 0
\* int(a): the conversion truncates toward zero.
RTrunc(a) == IF a[1] >= 0 THEN a[1] \div a[2] ELSE -((-a[1]) \div a[2])

(***************************************************************************)
(* package geometry: the text rasterizer.                                  *)
(***************************************************************************)
baseWidthVoxelResolution == 2000
\* voxelDepth = 1.0
voxelDepth == RInt(1)

\* CreateCube: 12 triangles (two a face) of the box, or an error when an extent
\* is not positive.
CreateCube(x, y, z, sizeX, sizeY, sizeZ) ==
    IF ~(RPositive(sizeX) /\ RPositive(sizeY) /\ RPositive(sizeZ))
    THEN [err |-> NewError("ValidationError", "dimensions must be positive", Nil),
          triangles |-> <<>>]
    ELSE [err |-> Nil,
          triangles |-> [k \in 1..12 |->
                            [corner |-> <<x, y, z>>, size |-> <<sizeX, sizeY, sizeZ>>,
                             face |-> (k + 1) \div 2]]]

\* A voxel hung with its bottom edge, not its top edge, at the pixel's row.
createVoxelOnFaceBottomAtRow(x, y, height, baseWidth, baseHeight) ==
    LET xResolution == RInt(baseWidthVoxelResolution)
        yResolution == RDiv(RMul(xResolution, baseHeight), baseWidth)
        voxelSizeX  == RMul(RDiv(RInt(1), xResolution), baseWidth)
        voxelSizeY  == RMul(RDiv(RInt(1), yResolution), baseHeight)
    IN  CreateCube(RMul(RDiv(x, xResolution), baseWidth), RNeg(height),
                   RNeg(RMul(RDiv(y, yResolution), baseHeight)),
                   voxelSizeX, height, voxelSizeY)

\* A voxel whose height on the face is a 2000th of the face's height.
createVoxelOnFaceOfFaceShape(x, y, height, baseWidth, baseHeight) ==
    LET xResolution == RInt(baseWidthVoxelResolution)
        yResolution == RDiv(RMul(xResolution, baseHeight), baseWidth)
        voxelSizeX  == RMul(RDiv(RInt(1), xResolution), baseWidth)
        voxelSizeY  == RMul(RDiv(RInt(1), xResolution), baseHeight)
    IN  CreateCube(RMul(RDiv(x, xResolution), baseWidth), RNeg(height),
                   RSub(RNeg(voxelSizeY), RMul(RDiv(y, yResolution), baseHeight)),
                   voxelSizeX, height, voxelSizeY)

createVoxelOnFace(x, y, height, baseWidth, baseHeight) ==
    LET xResolution == RInt(baseWidthVoxelResolution)
        yResolution == RDiv(RMul(xResolution, baseHeight), baseWidth)
        voxelSize   == RInt(1)
        xs          == RMul(RDiv(x, xResolution), baseWidth)
        ys          == RMul(RDiv(y, yResolution), baseHeight)
        voxelSizeX  == RMul(RDiv(voxelSize, xResolution), baseWidth)
        voxelSizeY  == RMul(RDiv(voxelSize, yResolution), baseHeight)
    IN  CreateCube(xs, RNeg(height), RSub(RNeg(voxelSizeY), ys),
                   voxelSizeX, height, voxelSizeY)

\* faceHeightRes := int(float64(faceWidthRes) * baseHeight / baseWidth)
FaceHeightRes(baseWidth, baseHeight) ==
    RTrunc(RDiv(RMul(RInt(baseWidthVoxelResolution), baseHeight), baseWidth))

\* The pixels of the face in the order of the loops: x, then y.
PixelBefore(p, q) == p[1] < q[1] \/ (p[1] = q[1] /\ p[2] < q[2])

RECURSIVE PixelOrder(_)
PixelOrder(pixels) ==
    IF pixels = {} THEN <<>>
    ELSE LET first == CHOOSE p \in pixels : \A q \in pixels \ {p} : PixelBefore(p, q)
         IN  <<first>> \o PixelOrder(pixels \ {first})

\* The loop over the pixels: the voxels of the active ones, or the first error.
RECURSIVE Voxels(_, _, _)
Voxels(order, baseWidth, baseHeight) ==
    IF order = <<>> THEN [err |-> Nil, triangles |-> <<>>]
    ELSE LET voxel == createVoxelOnFace(RInt(Head(order)[1]), RInt(Head(order)[2]),
                                       voxelDepth, baseWidth, baseHeight)
             rest  == Voxels(Tail(order), baseWidth, baseHeight)
         IN  IF voxel.err # Nil
             THEN [err |-> NewError("STLError", "failed to create cube", voxel.err),
                   triangles |-> <<>>]
             ELSE IF rest.err # Nil THEN rest
             ELSE [err |-> Nil, triangles |-> voxel.triangles \o rest.triangles]

\* A call of writeTempFont or LoadFontFace, and whether it succeeded.
FontCall(op, font, ok) == [op |-> op, font |-> font, ok |-> ok]

\* The fonts renderText writes: the result of a renderText without a fallback.
WriteFontsNoFallback(primaryFails, fallbackFails) ==
    [calls    |-> <<FontCall("writeTempFont", "PrimaryFont", ~primaryFails)>>,
     fontPath |-> IF primaryFails THEN "none" ELSE "PrimaryFont",
     err      |-> IF primaryFails THEN FontError ELSE Nil]

\* fontPath, cleanup, err := writeTempFont(PrimaryFont), and on an error
\* writeTempFont(FallbackFont): the calls made, the font written, the last error.
WriteFonts(primaryFails, fallbackFails) ==
    IF ~primaryFails
    THEN [calls    |-> <<FontCall("writeTempFont", "PrimaryFont", TRUE)>>,
          fontPath |-> "PrimaryFont",
          err      |-> Nil]
    ELSE [calls    |-> <<FontCall("writeTempFont", "PrimaryFont", FALSE),
                         FontCall("writeTempFont", "FallbackFont", ~fallbackFails)>>,
          fontPath |-> IF fallbackFails THEN "none" ELSE "FallbackFont",
          err      |-> IF fallbackFails THEN FontError ELSE Nil]

\* Face coordinates and depths handed to createVoxelOnFace: pixels of a drawn
\* text, the last row and the last column of a face among them, a scaled and
\* offset pixel of the logo, and depths around voxelDepth.
VoxelCoords == { RInt(0), RInt(3), RInt(139), RInt(999), RInt(1999), RNorm(302, 5) }
VoxelDepths == { RInt(0), voxelDepth, RInt(2) }

\* The faces text is rendered on: <<baseWidth, baseHeight>>.
FaceDims == { <<RNorm(285, 2), RInt(10)>>, <<RInt(4), RInt(2)>>, <<RInt(-1), RInt(-1)>> }

\* Pixels the drawn text may set.
SamplePixels == { <<0, 0>>, <<1999, 0>>, <<7, 139>>, <<7, 999>> }

(***************************************************************************)
(* package geometry: Create3DText.  What a renderText call meets is `env`: *)
(* whether writeTempFont and LoadFontFace fail, and the pixels that the    *)
(* text drawn with the font sets in the image of the face.                 *)
(***************************************************************************)
usernameFontSize == 120
usernameJustification == "left"
\* usernameLeftOffset = 0.1
usernameLeftOffset == RNorm(1, 10)
yearFontSize == 100
yearJustification == "right"
\* yearLeftOffset = 0.97
yearLeftOffset == RNorm(97, 100)

renderText(text, justification, leftOffsetPercent, fontSize, baseWidth, baseHeight, env) ==
    LET fonts == WriteFonts(env.primaryFails, env.fallbackFails) IN
    IF fonts.err # Nil
    THEN [err |-> NewError("IOError", "failed to load any fonts", fonts.err),
          triangles |-> <<>>]
    ELSE IF env.loadFails
    THEN [err |-> NewError("IOError", "failed to load font", FontError), triangles |-> <<>>]
    ELSE Voxels(PixelOrder(env.active), baseWidth, baseHeight)

\* The arguments of a renderText call.
Label(text, justification, leftOffsetPercent, fontSize) ==
    [text |-> text, justification |-> justification,
     leftOffsetPercent |-> leftOffsetPercent, fontSize |-> fontSize]

Anonymous == <<"a", "n", "o", "n", "y", "m", "o", "u", "s">>

\* A Create3DText that puts the year's triangles first.
Create3DTextYearFirst(username, year, baseWidth, baseHeight, envs) ==
    LET name == IF username = <<>> THEN Anonymous ELSE username
        usernameLabel == Label(name, usernameJustification, usernameLeftOffset,
                               usernameFontSize)
        yearLabel == Label(year, yearJustification, yearLeftOffset, yearFontSize)
        usernameTriangles == renderText(name, usernameJustification, usernameLeftOffset,
                                        usernameFontSize, baseWidth, baseHeight, envs[1])
        yearTriangles == renderText(year, yearJustification, yearLeftOffset, yearFontSize,
                                    baseWidth, baseHeight, envs[2])
    IN  IF usernameTriangles.err # Nil
        THEN [err |-> usernameTriangles.err, triangles |-> <<>>,
              rendered |-> <<usernameLabel>>]
        ELSE IF yearTriangles.err # Nil
        THEN [err |-> yearTriangles.err, triangles |-> <<>>,
              rendered |-> <<usernameLabel, yearLabel>>]
        ELSE [err |-> Nil,
              triangles |-> yearTriangles.triangles \o usernameTriangles.triangles,
              rendered |-> <<usernameLabel, yearLabel>>]

\* The triangles returned, the error, and the renderText calls made.
Create3DText(username, year, baseWidth, baseHeight, envs) ==
    LET name == IF username = <<>> THEN Anonymous ELSE username
        usernameLabel == Label(name, usernameJustification, usernameLeftOffset,
                               usernameFontSize)
        yearLabel == Label(year, yearJustification, yearLeftOffset, yearFontSize)
        usernameTriangles == renderText(name, usernameJustification, usernameLeftOffset,
                                        usernameFontSize, baseWidth, baseHeight, envs[1])
        yearTriangles == renderText(year, yearJustification, yearLeftOffset, yearFontSize,
                                    baseWidth, baseHeight, envs[2])
    IN  IF usernameTriangles.err # Nil
        THEN [err |-> usernameTriangles.err, triangles |-> <<>>,
              rendered |-> <<usernameLabel>>]
        ELSE IF yearTriangles.err # Nil
        THEN [err |-> yearTriangles.err, triangles |-> <<>>,
              rendered |-> <<usernameLabel, yearLabel>>]
        ELSE [err |-> Nil,
              triangles |-> usernameTriangles.triangles \o yearTriangles.triangles,
              rendered |-> <<usernameLabel, yearLabel>>]

\* What a renderText call can meet on a face: no font at all, a font that does
\* not load, or a font (the fallback at times) and the pixels of the text.
LabelEnvs(dims) ==
    { env \in [primaryFails : BOOLEAN, fallbackFails : BOOLEAN, loadFails : BOOLEAN,
               active : SUBSET SamplePixels] :
        /\ Cardinality(env.active) <= MaxPixels
        /\ \A p \in env.active : p[2] < FaceHeightRes(dims[1], dims[2])
        /\ ~env.primaryFails => ~env.fallbackFails
        /\ (env.fallbackFails \/ env.loadFails) => env.active = {}
        /\ env.fallbackFails => ~env.loadFails
        /\ env.active # {} => ~env.primaryFails }

(***************************************************************************)
(* package geometry: the image rasterizer.                                 *)
(***************************************************************************)
\* logoScale = 0.4, logoTopOffset = 0.15, logoLeftOffset = 0.03
logoScale == RNorm(2, 5)
logoTopOffset == RNorm(3, 20)
logoLeftOffset == RNorm(3, 100)

RAdd(a, b) == RNorm(a[1] * b[2] + b[1] * a[2], a[2] * b[2])

\* What color.Color.RGBA() returns: 16-bit channels, alpha-premultiplied.
ChannelMax == 65535
Color(r, g, b, a) == [r |-> r, g |-> g, b |-> b, a |-> a]
LogoColors ==
    { Color(ChannelMax, ChannelMax, ChannelMax, ChannelMax),
      Color(ChannelMax, 0, 0, ChannelMax),
      Color(0, ChannelMax, ChannelMax, ChannelMax),
      Color(32768, 32768, 32768, ChannelMax),
      Color(32769, 0, 32769, 32769),
      Color(32768, 0, 0, 32768),
      Color(0, 0, 0, 0) }

\* The decoded images: bounds (0,0)-(width,height), a colour for each pixel.
LogoDims == { d \in (1..MaxLogoPixels) \X (1..MaxLogoPixels) : d[1] * d[2] <= MaxLogoPixels }
LogoCoords(d) == (0..(d[1] - 1)) \X (0..(d[2] - 1))
LogoImages ==
    UNION { { [width |-> d[1], height |-> d[2], at |-> f] : f \in [LogoCoords(d) -> LogoColors] }
            : d \in LogoDims }

\* A pixel counted as active from half of the channel's range on.
IsLogoPixelActiveFromHalf(c) == c.a >= 32768 /\ c.r >= 32768

\* r, _, _, a := img.At(x, y).RGBA(); a > 32768 && r > 32768
IsLogoPixelActive(c) == c.a > 32768 /\ c.r > 32768

\* The pixels in the order of the loops: x upwards, and for each x, y downwards.
LogoBefore(p, q) == p[1] < q[1] \/ (p[1] = q[1] /\ p[2] > q[2])

RECURSIVE LogoOrder(_)
LogoOrder(pixels) ==
    IF pixels = {} THEN <<>>
    ELSE LET first == CHOOSE p \in pixels : \A q \in pixels \ {p} : LogoBefore(p, q)
         IN  <<first>> \o LogoOrder(pixels \ {first})

\* The voxel of the source pixel (x, y) of the logo.
LogoVoxel(x, y, scale, height, leftOffsetPercent, topOffsetPercent, baseWidth, baseHeight) ==
    LET faceWidthRes  == baseWidthVoxelResolution
        faceHeightRes == FaceHeightRes(baseWidth, baseHeight)
    IN  createVoxelOnFace(
            RAdd(RMul(leftOffsetPercent, RInt(faceWidthRes)), RMul(RInt(x), scale)),
            RAdd(RMul(topOffsetPercent, RInt(faceHeightRes)), RMul(RInt(y), scale)),
            height, baseWidth, baseHeight)

RECURSIVE LogoVoxels(_, _, _, _, _, _, _, _)
LogoVoxels(order, image, scale, height, leftOffsetPercent, topOffsetPercent, baseWidth, baseHeight) ==
    IF order = <<>> THEN [err |-> Nil, triangles |-> <<>>]
    ELSE LET p     == Head(order)
             rest  == LogoVoxels(Tail(order), image, scale, height, leftOffsetPercent,
                                 topOffsetPercent, baseWidth, baseHeight)
             voxel == LogoVoxel(p[1], p[2], scale, height, leftOffsetPercent,
                                topOffsetPercent, baseWidth, baseHeight)
         IN  IF ~IsLogoPixelActive(image.at[p]) THEN rest
             ELSE IF voxel.err # Nil
             THEN [err |-> NewError("STLError", "failed to create cube", voxel.err),
                   triangles |-> <<>>]
             ELSE IF rest.err # Nil THEN rest
             ELSE [err |-> Nil, triangles |-> voxel.triangles \o rest.triangles]

\* renderImage(filePath, scale, height, leftOffsetPercent, topOffsetPercent,
\*             baseWidth, baseHeight), by what os.Open and png.Decode give.
renderImage(image, openFails, decodeFails, scale, height, leftOffsetPercent, topOffsetPercent, baseWidth, baseHeight) ==
    IF openFails
    THEN [err |-> NewError("IOError", "failed to open image", FontError), triangles |-> <<>>]
    ELSE IF decodeFails
    THEN [err |-> NewError("IOError", "failed to decode PNG", FontError), triangles |-> <<>>]
    ELSE LogoVoxels(LogoOrder(LogoCoords(<<image.width, image.height>>)), image, scale,
                    height, leftOffsetPercent, topOffsetPercent, baseWidth, baseHeight)

\* GenerateImageGeometry(baseWidth, baseHeight)
GenerateImageGeometry(image, embedFails, openFails, decodeFails, baseWidth, baseHeight) ==
    IF embedFails THEN [err |-> FontError, triangles |-> <<>>]
    ELSE renderImage(image, openFails, decodeFails, logoScale, voxelDepth, logoLeftOffset,
                     logoTopOffset, baseWidth, baseHeight)

(***************************************************************************)
(* package cmd: openGitHubProfile.  `client` is what GetAuthenticatedUser  *)
(* does, `browser` what Browse does, `hostname` what auth.DefaultHost      *)
(* gives.                                                                  *)
(***************************************************************************)
ProfileURL(hostname, targetUser) ==
    <<"h", "t", "t", "p", "s", ":", "/", "/">> \o hostname \o <<"/">> \o targetUser

BrowserError == [type |-> "browser", msg |-> "browse failure", cause |-> ""]

Profile(lookups, browsed, err) == [lookups |-> lookups, browsed |-> browsed, err |-> err]

\* A profile opened for the authenticated user whoever was asked for.
openGitHubProfileOfSelf(targetUser, client, browser, hostname) ==
    IF client.fails
    THEN Profile(1, <<>>,
                 NewError("NetworkError", "failed to get authenticated user", ApiError))
    ELSE Profile(1, <<ProfileURL(hostname, client.username)>>,
                 IF browser.fails THEN BrowserError ELSE Nil)

\* The lookups of the authenticated user, the URLs handed to Browse, the error.
openGitHubProfile(targetUser, client, browser, hostname) ==
    IF targetUser = <<>> /\ client.fails
    THEN Profile(1, <<>>,
                 NewError("NetworkError", "failed to get authenticated user", ApiError))
    ELSE LET user == IF targetUser = <<>> THEN client.username ELSE targetUser
         IN  Profile(IF targetUser = <<>> THEN 1 ELSE 0,
                     <<ProfileURL(hostname, user)>>,
                     IF browser.fails THEN BrowserError ELSE Nil)

Hostnames == { <<"g", "i", "t", "h", "u", "b", ".", "c", "o", "m">>, <<"g", "h", "e", ".", "i", "o">> }

(***************************************************************************)
(* State.                                                                  *)
(***************************************************************************)
VARIABLES
    comp,        \* the component called: "idle", "ascii", "skyline", "text", "utils", ...
    blockCall,   \* the arguments and the result of a getBlock call
    asciiCall,   \* the arguments and the result of a GenerateASCII call
    \* GenerateSkyline
    pc,                \* where GenerateSkyline is
    startYear, endYear, targetUser, full, artOnly,   \* its parameters
    joinCall,          \* the GetUserJoinYear call made, with the parameters it found
    year,              \* the loop variable
    allContributions,  \* the grids fetched so far
    fetches,           \* the fetches made: the year, whether it succeeded, the grid
    asciiCalls,        \* the GenerateASCII calls made: year, flags and error
    printed,           \* what was printed: the year, its rendering, the lines shown
    warnings,          \* the years whose warning was logged
    outputPaths,       \* the output file names computed
    stlCalls,          \* the calls of GenerateSTL and GenerateSTLRange
    ret,               \* the error GenerateSkyline returned
    \* renderText
    tpc,               \* where renderText is
    face,              \* <<baseWidth, baseHeight>>
    tempFiles,         \* the temporary font files on disk
    fontPath,          \* the font file written for this call, or "none"
    fontCalls,         \* the calls of writeTempFont and LoadFontFace, in order
    deferred,          \* the deferred calls registered so far
    cleanupCalls,      \* how many times the cleanup of writeTempFont was called
    triangles,         \* the local variable triangles
    textRet,           \* what renderText returned
    voxelCall,   \* the arguments and the result of a createVoxelOnFace call
    imageCall,   \* the arguments and the result of a GenerateImageGeometry call
    utilsCall,   \* the arguments and the result of a call into package utils
    profileCall,   \* the arguments and the result of an openGitHubProfile call
    githubCall,   \* the arguments and the result of a call of the GitHub client
    labelCall    \* the arguments and the result of a Create3DText call

asciiVars == <<blockCall, asciiCall>>
skyArgs == <<startYear, endYear, targetUser, full, artOnly, joinCall>>
skyLoop == <<year, allContributions, fetches, asciiCalls, printed, warnings>>
skyVars == <<pc, skyArgs, skyLoop, outputPaths, stlCalls, ret>>
textVars == <<tpc, face, tempFiles, fontPath, fontCalls, deferred, cleanupCalls, triangles, textRet>>
callVars == <<voxelCall, imageCall, utilsCall, profileCall, githubCall, labelCall>>
vars == <<comp, asciiVars, skyVars, textVars, callVars>>

NoCall == [called |-> FALSE]

Init ==
    /\ comp = "idle"
    /\ blockCall = NoCall
    /\ asciiCall = NoCall
    /\ pc = "idle"
    /\ startYear = 0
    /\ endYear = 0
    /\ targetUser = <<>>
    /\ full = FALSE
    /\ artOnly = FALSE
    /\ year = 0
    /\ allContributions = <<>>
    /\ fetches = <<>>
    /\ asciiCalls = <<>>
    /\ printed = <<>>
    /\ warnings = <<>>
    /\ outputPaths = <<>>
    /\ stlCalls = <<>>
    /\ ret = Nil
    /\ tpc = "idle"
    /\ face = <<RInt(1), RInt(1)>>
    /\ tempFiles = {}
    /\ fontPath = "none"
    /\ fontCalls = <<>>
    /\ voxelCall = NoCall
    /\ imageCall = NoCall
    /\ utilsCall = NoCall
    /\ labelCall = NoCall
    /\ githubCall = NoCall
    /\ joinCall = NoCall
    /\ profileCall = NoCall
    /\ deferred = <<>>
    /\ cleanupCalls = 0
    /\ triangles = <<>>
    /\ textRet = [triangles |-> <<>>, err |-> Nil]

\* A call of getBlock, as the renderer makes it for a day of `count`
\* contributions in a grid whose largest count is maxCount.
CallGetBlock ==
    /\ comp = "idle"
    /\ \E maxCount \in 0..MaxCount, nonZeroCount \in 1..DaysPerWeek :
       \E count \in 0..Max(maxCount, 1), dayIdx \in 0..(nonZeroCount - 1) :
          blockCall' = [called |-> TRUE, count |-> count, maxCount |-> maxCount,
                        dayIdx |-> dayIdx, nonZeroCount |-> nonZeroCount,
                        block |-> getBlock(count, Max(maxCount, 1), dayIdx, nonZeroCount),
                        role |-> StackRole(dayIdx, nonZeroCount)]
    /\ comp' = "getBlock"
    /\ UNCHANGED <<asciiCall, skyVars, textVars, callVars>>

\* A call of GenerateASCII.  Days after `now` are yet to come and have no
\* contributions.
CallGenerateASCII ==
    /\ comp = "idle"
    /\ \E cg \in CountGrids(MaxGridDays), includeHeader \in BOOLEAN,
          includeUserInfo \in BOOLEAN, labels \in FooterLabels :
       \E now \in 0..TotalDays(cg) :
          LET grid     == DatedGrid(cg, 1)
              username == labels[1]
              yr       == labels[2]
          IN
          /\ \A i \in 1..TotalDays(grid) :
                IsAfter(Flatten(grid)[i], now) => Flatten(grid)[i].ContributionCount = 0
          /\ asciiCall' = [called |-> TRUE, grid |-> grid, now |-> now,
                           username |-> username, year |-> yr,
                           includeHeader |-> includeHeader,
                           includeUserInfo |-> includeUserInfo,
                           result |-> GenerateASCII(grid, now, username, yr,
                                                    includeHeader, includeUserInfo)]
    /\ comp' = "ascii"
    /\ UNCHANGED <<blockCall, skyVars, textVars, callVars>>

(***************************************************************************)
(* GenerateSkyline(startYear, endYear, targetUser, full, output, artOnly). *)
(***************************************************************************)
\* The call: the year range is one ParseYearRange accepted.
CallGenerateSkyline ==
    /\ comp = "idle"
    /\ comp' = "skyline"
    /\ \E s \in Years, e \in Years, u \in Usernames \cup {<<>>},
          f \in BOOLEAN, a \in BOOLEAN :
          /\ s <= e
          /\ startYear' = s
          /\ endYear' = e
          /\ targetUser' = u
          /\ full' = f
          /\ artOnly' = a
    /\ joinCall' = NoCall
    /\ pc' = "client"
    /\ UNCHANGED <<asciiVars, callVars, skyLoop, outputPaths, stlCalls, ret, textVars>>

Return(err) ==
    /\ ret' = err
    /\ pc' = "done"

\* github.InitializeGitHubClient()
SkyInitClient ==
    /\ pc = "client"
    /\ \E fails \in BOOLEAN :
          IF fails
          THEN Return(NewError("NetworkError", "failed to initialize GitHub client", ApiError))
          ELSE pc' = "user" /\ UNCHANGED ret
    /\ UNCHANGED <<comp, asciiVars, callVars, skyArgs, skyLoop, outputPaths, stlCalls, textVars>>

\* The authenticated user stands in for a target user left empty.
SkyResolveUser ==
    /\ pc = "user"
    /\ IF targetUser # <<>>
       THEN pc' = "range" /\ UNCHANGED <<ret, targetUser>>
       ELSE \E debugFails \in BOOLEAN, lookupFails \in BOOLEAN, username \in Usernames :
               IF debugFails
               THEN Return(LogError) /\ UNCHANGED targetUser
               ELSE IF lookupFails
               THEN /\ Return(NewError("NetworkError", "failed to get authenticated user",
                                       ApiError))
                    /\ UNCHANGED targetUser
               ELSE /\ targetUser' = username
                    /\ pc' = "range"
                    /\ UNCHANGED ret
    /\ UNCHANGED <<comp, asciiVars, callVars, startYear, endYear, full, artOnly, joinCall,
                   skyLoop, outputPaths, stlCalls, textVars>>

\* In full mode the range runs from the user's join year to the current year.
SkyResolveRange ==
    /\ pc = "range"
    /\ IF ~full
       THEN /\ pc' = "loop"
            /\ year' = startYear
            /\ UNCHANGED <<ret, startYear, endYear, joinCall>>
       ELSE \E lookupFails \in BOOLEAN, createdAt \in CreatedAts :
               LET api    == [fails |-> lookupFails, createdAt |-> createdAt]
                   got    == GetUserJoinYear(targetUser, api)
                   range  == LifetimeRange(startYear, endYear, got.year, CurrentYear)
               IN
               /\ lookupFails => createdAt = ZeroTime
               /\ joinCall' = [called |-> TRUE, startYear |-> startYear,
                               endYear |-> endYear, api |-> api, result |-> got]
               /\ IF got.err # Nil
                  THEN /\ Return(NewError("NetworkError", "failed to get user join year",
                                          got.err))
                       /\ UNCHANGED <<year, startYear, endYear>>
                  ELSE /\ startYear' = range[1]
                       /\ endYear' = range[2]
                       /\ year' = range[1]
                       /\ pc' = "loop"
                       /\ UNCHANGED ret
    /\ UNCHANGED <<comp, asciiVars, callVars, targetUser, full, artOnly, allContributions,
                   fetches, asciiCalls, printed, warnings, outputPaths, stlCalls, textVars>>

\* One turn of the loop over the years: fetch, keep, render, warn or print.
SkyYear ==
    /\ pc = "loop"
    /\ year <= endYear
    /\ \E fails \in BOOLEAN, emptyLogin \in BOOLEAN, cg \in SkyCountGrids,
          warnFails \in BOOLEAN :
          LET weeks  == DatedGrid(cg, 1)
              now    == SkyNow
              api    == [fails |-> fails,
                         login |-> IF emptyLogin THEN <<>> ELSE targetUser,
                         weeks |-> weeks]
              got    == fetchContributionData(targetUser, year, api)
              header == IncludeHeader(year, startYear, artOnly)
              art    == GenerateASCII(got.contributions, now, targetUser, year,
                                      header, ~artOnly)
              onFail == AsciiFailure(art.err, warnFails)
          IN
          \* one choice for each outcome: what is not looked at is held fixed
          /\ fails => (~emptyLogin /\ cg = <<>>)
          /\ emptyLogin => cg = <<>>
          /\ (got.err # Nil \/ art.err = Nil) => ~warnFails
          /\ fetches' = Append(fetches,
                [year |-> year,
                 ok |-> FetchContributions(targetUser, year, api).err = Nil,
                 err |-> FetchContributions(targetUser, year, api).err,
                 grid |-> got.contributions])
          /\ IF got.err # Nil
             THEN /\ Return(got.err)
                  /\ UNCHANGED <<year, allContributions, asciiCalls, printed, warnings>>
             ELSE /\ allContributions' = Accumulate(allContributions, got.contributions)
                  /\ asciiCalls' = Append(asciiCalls,
                        [year |-> year, includeHeader |-> header,
                         includeUserInfo |-> ~artOnly, err |-> art.err])
                  /\ IF art.err # Nil
                     THEN IF onFail.returns
                          THEN /\ Return(onFail.err)
                               /\ UNCHANGED <<year, printed, warnings>>
                          ELSE /\ warnings' = Append(warnings, year)
                               /\ year' = year + 1
                               /\ UNCHANGED <<pc, ret, printed>>
                     ELSE /\ printed' = Append(printed,
                                [year |-> year, lines |-> art.lines,
                                 shown |-> Preview(art.lines, year = startYear)])
                          /\ year' = year + 1
                          /\ UNCHANGED <<pc, ret, warnings>>
    /\ UNCHANGED <<comp, asciiVars, callVars, skyArgs, outputPaths, stlCalls, textVars>>

Outputs == { <<>>, <<"o">>, <<"o", ".", "S", "T", "L">> }

\* After the loop: the STL file, unless only the art was asked for.
SkyFinish ==
    /\ pc = "loop"
    /\ year > endYear
    /\ IF ~GeneratesSTL(artOnly)
       THEN Return(Nil) /\ UNCHANGED <<outputPaths, stlCalls>>
       ELSE \E output \in Outputs, stlFails \in BOOLEAN :
               LET outputPath == GenerateOutputFilename(targetUser, startYear, endYear, output)
               IN  /\ outputPaths' = Append(outputPaths, outputPath)
                   /\ stlCalls' = Append(stlCalls,
                         [fn |-> IF Len(allContributions) = 1
                                 THEN "GenerateSTL" ELSE "GenerateSTLRange",
                          contributions |-> allContributions,
                          outputPath |-> outputPath,
                          user |-> targetUser,
                          startYear |-> startYear,
                          endYear |-> endYear])
                   /\ Return(IF stlFails THEN StlError ELSE Nil)
    /\ UNCHANGED <<comp, asciiVars, callVars, skyArgs, skyLoop, textVars>>

(***************************************************************************)
(* renderText(text, justification, leftOffsetPercent, fontSize,            *)
(*            baseWidth, baseHeight).                                      *)
(***************************************************************************)
CallRenderText ==
    /\ comp = "idle"
    /\ comp' = "text"
    /\ \E dims \in FaceDims : face' = dims
    /\ tpc' = "font"
    /\ UNCHANGED <<asciiVars, callVars, skyVars, tempFiles, fontPath, fontCalls, deferred,
                   cleanupCalls, triangles, textRet>>

\* A return of renderText: the deferred calls run, the last registered first.
TextReturn(tris, err) ==
    /\ textRet' = [triangles |-> tris, err |-> err]
    /\ tempFiles' = tempFiles \ {deferred[i] : i \in 1..Len(deferred)}
    /\ cleanupCalls' = cleanupCalls + Len(deferred)
    /\ tpc' = "done"

\* writeTempFont(PrimaryFont), and writeTempFont(FallbackFont) if that fails:
\* a font written leaves a temporary file, which its cleanup removes.
RenderTextWriteFont ==
    /\ tpc = "font"
    /\ \E primaryFails \in BOOLEAN, fallbackFails \in BOOLEAN :
          LET got == WriteFonts(primaryFails, fallbackFails) IN
          /\ ~primaryFails => ~fallbackFails
          /\ fontCalls' = fontCalls \o got.calls
          /\ IF got.err # Nil
             THEN /\ TextReturn(<<>>, NewError("IOError", "failed to load any fonts", got.err))
                  /\ UNCHANGED fontPath
             ELSE /\ fontPath' = got.fontPath
                  /\ tempFiles' = tempFiles \cup {got.fontPath}
                  /\ tpc' = "load"
                  /\ UNCHANGED <<cleanupCalls, textRet>>
    /\ UNCHANGED <<comp, asciiVars, callVars, skyVars, face, deferred, triangles>>

\* dc.LoadFontFace(fontPath, fontSize)
RenderTextLoadFont ==
    /\ tpc = "load"
    /\ \E loadFails \in BOOLEAN :
          /\ fontCalls' = Append(fontCalls, FontCall("LoadFontFace", fontPath, ~loadFails))
          /\ IF loadFails
             THEN TextReturn(<<>>, NewError("IOError", "failed to load font", FontError))
             ELSE tpc' = "draw" /\ UNCHANGED <<tempFiles, cleanupCalls, textRet>>
    /\ UNCHANGED <<comp, asciiVars, callVars, skyVars, face, fontPath, deferred, triangles>>

\* The text is drawn and every active pixel of the face becomes a voxel.
RenderTextVoxels ==
    /\ tpc = "draw"
    /\ \E active \in SUBSET SamplePixels :
          LET got == Voxels(PixelOrder(active), face[1], face[2]) IN
          /\ Cardinality(active) <= MaxPixels
          /\ \A p \in active : p[2] < FaceHeightRes(face[1], face[2])
          /\ IF got.err # Nil
             THEN TextReturn(<<>>, got.err) /\ UNCHANGED triangles
             ELSE /\ triangles' = got.triangles
                  /\ tpc' = "defer"
                  /\ UNCHANGED <<tempFiles, cleanupCalls, textRet>>
    /\ UNCHANGED <<comp, asciiVars, callVars, skyVars, face, fontPath, fontCalls, deferred>>

\* defer cleanup()
RenderTextDefer ==
    /\ tpc = "defer"
    /\ deferred' = Append(deferred, fontPath)
    /\ tpc' = "return"
    /\ UNCHANGED <<comp, asciiVars, callVars, skyVars, face, tempFiles, fontPath, fontCalls,
                   cleanupCalls, triangles, textRet>>

\* return triangles, nil
RenderTextReturn ==
    /\ tpc = "return"
    /\ TextReturn(triangles, Nil)
    /\ UNCHANGED <<comp, asciiVars, callVars, skyVars, face, fontPath, fontCalls, deferred, triangles>>

(***************************************************************************)
(* createVoxelOnFace(x, y, height, baseWidth, baseHeight)                  *)
(***************************************************************************)
CallCreateVoxelOnFace ==
    /\ comp = "idle"
    /\ \E x \in VoxelCoords, y \in VoxelCoords, height \in VoxelDepths, dims \in FaceDims :
          voxelCall' = [called |-> TRUE, x |-> x, y |-> y, height |-> height, face |-> dims,
                        result |-> createVoxelOnFace(x, y, height, dims[1], dims[2])]
    /\ comp' = "voxel"
    /\ UNCHANGED <<asciiVars, skyVars, textVars, imageCall, utilsCall, profileCall, githubCall, labelCall>>

(***************************************************************************)
(* GenerateImageGeometry(baseWidth, baseHeight)                            *)
(***************************************************************************)
CallGenerateImageGeometry ==
    /\ comp = "idle"
    /\ \E image \in LogoImages, dims \in FaceDims,
          fails \in {"none", "embed", "open", "decode"} :
          /\ fails # "none" =>
                (image.width * image.height = 1 /\ image.at[<<0, 0>>] = Color(0, 0, 0, 0))
          /\ imageCall' = [called |-> TRUE, image |-> image, face |-> dims, fails |-> fails,
                           result |-> GenerateImageGeometry(image, fails = "embed",
                                         fails = "open", fails = "decode",
                                         dims[1], dims[2])]
    /\ comp' = "image"
    /\ UNCHANGED <<asciiVars, skyVars, textVars, voxelCall, utilsCall, profileCall, githubCall, labelCall>>

(***************************************************************************)
(* package utils                                                           *)
(***************************************************************************)
CallParseYearRange ==
    /\ comp = "idle"
    /\ \E yearRange \in YearRangeTexts :
          utilsCall' = [called |-> TRUE, op |-> "ParseYearRange", yearRange |-> yearRange,
                        result |-> ParseYearRange(yearRange), cli |-> RunE(yearRange)]
    /\ comp' = "utils"
    /\ UNCHANGED <<asciiVars, skyVars, textVars, voxelCall, imageCall, profileCall, githubCall, labelCall>>

CallValidateYearRange ==
    /\ comp = "idle"
    /\ \E s \in UtilYears, e \in UtilYears :
          utilsCall' = [called |-> TRUE, op |-> "validateYearRange",
                        startYear |-> s, endYear |-> e,
                        result |-> validateYearRange(s, e)]
    /\ comp' = "utils"
    /\ UNCHANGED <<asciiVars, skyVars, textVars, voxelCall, imageCall, profileCall, githubCall, labelCall>>

CallFormatYearRange ==
    /\ comp = "idle"
    /\ \E s \in FormatYears, e \in FormatYears :
          utilsCall' = [called |-> TRUE, op |-> "FormatYearRange",
                        startYear |-> s, endYear |-> e,
                        result |-> FormatYearRange(s, e)]
    /\ comp' = "utils"
    /\ UNCHANGED <<asciiVars, skyVars, textVars, voxelCall, imageCall, profileCall, githubCall, labelCall>>

CallGenerateOutputFilename ==
    /\ comp = "idle"
    /\ \E user \in Usernames \cup {<<>>}, s \in Years, e \in Years, output \in OutputNames :
          /\ s <= e
          /\ utilsCall' = [called |-> TRUE, op |-> "GenerateOutputFilename", user |-> user,
                           startYear |-> s, endYear |-> e, output |-> output,
                           result |-> GenerateOutputFilename(user, s, e, output)]
    /\ comp' = "utils"
    /\ UNCHANGED <<asciiVars, skyVars, textVars, voxelCall, imageCall, profileCall, githubCall, labelCall>>

(***************************************************************************)
(* openGitHubProfile(targetUser, client, b)                                *)
(***************************************************************************)
CallOpenGitHubProfile ==
    /\ comp = "idle"
    /\ \E target \in Usernames \cup {<<>>}, username \in Usernames,
          clientFails \in BOOLEAN, browserFails \in BOOLEAN, hostname \in Hostnames :
          profileCall' = [called |-> TRUE, targetUser |-> target,
                          client |-> [fails |-> clientFails, username |-> username],
                          browser |-> [fails |-> browserFails], hostname |-> hostname,
                          result |-> openGitHubProfile(target,
                                        [fails |-> clientFails, username |-> username],
                                        [fails |-> browserFails], hostname)]
    /\ comp' = "profile"
    /\ UNCHANGED <<asciiVars, skyVars, textVars, voxelCall, imageCall, utilsCall, githubCall, labelCall>>

(***************************************************************************)
(* Client.FetchContributions(username, year)                               *)
(***************************************************************************)
CallFetchContributions ==
    /\ comp = "idle"
    /\ \E username \in Usernames \cup {<<>>}, yr \in (githubLaunchYear - 1)..CurrentYear,
          fails \in BOOLEAN, login \in Usernames \cup {<<>>},
          weeks \in {<<>>, << <<1, 3>> >>} :
          githubCall' = [called |-> TRUE, op |-> "FetchContributions",
                         username |-> username, year |-> yr,
                         api |-> [fails |-> fails, login |-> login, weeks |-> weeks],
                         result |-> FetchContributions(username, yr,
                                       [fails |-> fails, login |-> login, weeks |-> weeks])]
    /\ comp' = "github"
    /\ UNCHANGED <<asciiVars, skyVars, textVars, voxelCall, imageCall, utilsCall, profileCall, labelCall>>

(***************************************************************************)
(* Client.GetUserJoinYear(username)                                        *)
(***************************************************************************)
CallGetUserJoinYear ==
    /\ comp = "idle"
    /\ \E username \in Usernames \cup {<<>>}, fails \in BOOLEAN, createdAt \in CreatedAts :
          githubCall' = [called |-> TRUE, op |-> "GetUserJoinYear",
                         username |-> username,
                         api |-> [fails |-> fails, createdAt |-> createdAt],
                         result |-> GetUserJoinYear(username,
                                       [fails |-> fails, createdAt |-> createdAt])]
    /\ comp' = "github"
    /\ UNCHANGED <<asciiVars, skyVars, textVars, voxelCall, imageCall, utilsCall, profileCall, labelCall>>

(***************************************************************************)
(* Create3DText(username, year, baseWidth, baseHeight)                     *)
(***************************************************************************)
CallCreate3DText ==
    /\ comp = "idle"
    /\ \E username \in {<<>>, <<"o", "c", "t">>}, dims \in FaceDims :
          \E first \in LabelEnvs(dims), second \in LabelEnvs(dims) :
             LET got == Create3DText(username, Itoa(CurrentYear), dims[1], dims[2],
                                     <<first, second>>)
             IN
             \* the second call is looked at only if it is made
             /\ Len(got.rendered) = 1 => second = first
             /\ labelCall' = [called |-> TRUE, username |-> username,
                              year |-> Itoa(CurrentYear), face |-> dims,
                              envs |-> <<first, second>>, result |-> got]
    /\ comp' = "label"
    /\ UNCHANGED <<asciiVars, skyVars, textVars, voxelCall, imageCall, utilsCall, profileCall, githubCall>>

Next ==
    \/ CallGetBlock
    \/ CallGenerateASCII
    \/ CallGenerateSkyline
    \/ SkyInitClient
    \/ SkyResolveUser
    \/ SkyResolveRange
    \/ SkyYear
    \/ SkyFinish
    \/ CallRenderText
    \/ RenderTextWriteFont
    \/ RenderTextLoadFont
    \/ RenderTextVoxels
    \/ RenderTextDefer
    \/ RenderTextReturn
    \/ CallParseYearRange
    \/ CallValidateYearRange
    \/ CallFormatYearRange
    \/ CallGenerateOutputFilename
    \/ CallOpenGitHubProfile
    \/ CallFetchContributions
    \/ CallGetUserJoinYear
    \/ CallCreate3DText
    \/ CallCreateVoxelOnFace
    \/ CallGenerateImageGeometry

Spec == Init /\ [][Next]_vars

(***************************************************************************)
(* Properties of the height classifier and of the ASCII renderer.          *)
(***************************************************************************)
LevelOfRune(b) ==
    CASE b \in {FoundationLow, MiddleLow, TopLow} -> "Low"
      [] b \in {FoundationMed, MiddleMed, TopMed} -> "Medium"
      [] b \in {FoundationHigh, MiddleHigh, TopHigh} -> "High"
      [] OTHER -> "Sky"

\* The index of the first grid line of a rendering, less one.
BodyStart(call) == IF call.includeHeader THEN Len(HeaderTemplate) + 1 ELSE 0

\* The rune of week w on row r (row 1 is the top line of the grid body).
Cell(call, r, w) == call.result.lines[BodyStart(call) + r].runes[w]

ContributingDays(call, w) ==
    SelectSeq(call.grid[w], LAMBDA d : d.ContributionCount > 0 /\ d.Date <= call.now)

\* C1: with normalized = count / max(maxCount, 1), getBlock yields the empty
\* (sky) rune iff normalized = 0, a Low rune iff 0 < normalized <= 1/3, a Medium
\* rune iff 1/3 < normalized <= 2/3 and a High rune iff normalized > 2/3,
\* whatever the day index and the number of non-zero days are.
C1_HeightClassification ==
    blockCall.called =>
        LET c   == blockCall.count
            den == Max(blockCall.maxCount, 1)
            b   == blockCall.block
        IN  /\ (b = EmptyBlock) <=> (c = 0)
            /\ (LevelOfRune(b) = "Low") <=> (0 < c /\ 3 * c <= den)
            /\ (LevelOfRune(b) = "Medium") <=> (den < 3 * c /\ 3 * c <= 2 * den)
            /\ (LevelOfRune(b) = "High") <=> (3 * c > 2 * den)

\* C1 witness: a day at exactly a third of the largest count is classified Low.
C1_Witness ==
    /\ blockCall.called
    /\ blockCall.count > 0
    /\ 3 * blockCall.count = Max(blockCall.maxCount, 1)
    /\ LevelOfRune(blockCall.block) = "Low"

\* C2: a contributing day with index i among the n non-zero days of its week is
\* the Foundation if i = 0, else the Top if i = n - 1, else a Middle; it gets a
\* spire rune exactly when it is the Top and a body rune otherwise; a week with
\* one non-zero day gets a foundation rune and never a spire; a day with
\* normalized = 0 gets no block at all.
C2_StackRole ==
    /\ blockCall.called =>
          LET i == blockCall.dayIdx
              n == blockCall.nonZeroCount
              b == blockCall.block
          IN  /\ blockCall.count = 0 => b = EmptyBlock
              /\ blockCall.count > 0 =>
                    /\ blockCall.role =
                          (IF i = 0 THEN "Foundation"
                           ELSE IF i = n - 1 THEN "Top" ELSE "Middle")
                    /\ (b \in SpireRunes) <=> (i # 0 /\ i = n - 1)
                    /\ (b \in BodyRunes) <=> (i = 0 \/ i # n - 1)
                    /\ n = 1 => b \in {FoundationLow, FoundationMed, FoundationHigh}
    /\ (asciiCall.called /\ asciiCall.result.err = Nil) =>
          \A w \in 1..Len(asciiCall.grid) :
             Len(ContributingDays(asciiCall, w)) = 1 =>
                /\ Cell(asciiCall, DaysPerWeek, w) \in BodyRunes
                /\ \A r \in 1..DaysPerWeek : Cell(asciiCall, r, w) \notin SpireRunes

\* C2 witness: the only non-zero day of a week, which is first and last at once.
C2_Witness ==
    /\ blockCall.called
    /\ blockCall.count > 0
    /\ blockCall.nonZeroCount = 1
    /\ blockCall.dayIdx = 0
    /\ blockCall.block \in BodyRunes

\* C3: GenerateASCII of a grid of zero weeks returns a validation error and no
\* text, for every username, year and choice of the header and footer flags; of a
\* grid of at least one week it returns no error.
C3_EmptyGridFails ==
    asciiCall.called =>
        /\ Len(asciiCall.grid) = 0 =>
              /\ asciiCall.result.err.type = "ValidationError"
              /\ asciiCall.result.lines = <<>>
        /\ Len(asciiCall.grid) >= 1 => asciiCall.result.err = Nil

\* C3 witness: a grid of zero weeks rendered with header and footer asked for.
C3_Witness ==
    /\ asciiCall.called
    /\ Len(asciiCall.grid) = 0
    /\ asciiCall.includeHeader
    /\ asciiCall.includeUserInfo
    /\ asciiCall.result.err # Nil

AllZero(call) ==
    \A w \in 1..Len(call.grid) : \A d \in 1..Len(call.grid[w]) :
        /\ call.grid[w][d].ContributionCount = 0
        /\ call.grid[w][d].Date <= call.now

\* C4: for a grid whose days all have count 0, none of them yet to come, each of
\* the 7 lines of the grid body holds only the sky rune, with and without header
\* and footer; with the header, the 7 body lines come right after the header
\* lines (the banner and the blank line after it).
C4_AllZeroIsSky ==
    (asciiCall.called /\ Len(asciiCall.grid) >= 1 /\ AllZero(asciiCall)) =>
        LET lines == asciiCall.result.lines
            start == IF asciiCall.includeHeader THEN Len(HeaderTemplate) + 1 ELSE 0
        IN  /\ Len(lines) >= start + DaysPerWeek
            /\ \A i \in 1..start : lines[i].kind = "header"
            /\ \A i \in (start + 1)..(start + DaysPerWeek) :
                  /\ lines[i].kind = "grid"
                  /\ Len(lines[i].runes) = Len(asciiCall.grid)
                  /\ \A w \in 1..Len(lines[i].runes) : lines[i].runes[w] = EmptyBlock

\* C4 witness: an all-zero grid of two weeks rendered with its header.
C4_Witness ==
    /\ asciiCall.called
    /\ Len(asciiCall.grid) = 2
    /\ AllZero(asciiCall)
    /\ asciiCall.includeHeader
    /\ asciiCall.result.err = Nil

\* C5: each week is one column, in grid order; in a column every day without
\* contributions is above every contributing day, and the contributing days are
\* stacked from the bottom in their chronological order, for weeks of any length.
C5_ColumnLayout ==
    (asciiCall.called /\ asciiCall.result.err = Nil) =>
        /\ \A r \in 1..DaysPerWeek :
              Len(asciiCall.result.lines[BodyStart(asciiCall) + r].runes) = Len(asciiCall.grid)
        /\ \A w \in 1..Len(asciiCall.grid) :
              LET nz == ContributingDays(asciiCall, w)
                  n  == Len(nz)
              IN  /\ \A r \in 1..(DaysPerWeek - n) :
                        Cell(asciiCall, r, w) \in {EmptyBlock, FutureBlock}
                  /\ \A k \in 1..n :
                        LevelOfRune(Cell(asciiCall, DaysPerWeek + 1 - k, w)) =
                           HeightLevel(nz[k].ContributionCount,
                                       Max(MaxContributions(asciiCall.grid), 1))

\* C5 witness: a week whose first day has no contributions and whose next two
\* days contribute at different levels.
C5_Witness ==
    /\ asciiCall.called
    /\ asciiCall.result.err = Nil
    /\ \E w \in 1..Len(asciiCall.grid) :
          /\ Len(asciiCall.grid[w]) = 3
          /\ asciiCall.grid[w][1].ContributionCount = 0
          /\ asciiCall.grid[w][2].ContributionCount = 1
          /\ asciiCall.grid[w][3].ContributionCount = 3
          /\ asciiCall.now >= asciiCall.grid[w][3].Date
          /\ Cell(asciiCall, DaysPerWeek, w) = FoundationLow
          /\ Cell(asciiCall, DaysPerWeek - 1, w) = TopHigh

(***************************************************************************)
(* Properties of GenerateSkyline.                                          *)
(***************************************************************************)
SeqElems(q) == {q[i] : i \in 1..Len(q)}

NumYears == endYear - startYear + 1

AllFetched ==
    /\ Len(fetches) = NumYears
    /\ \A i \in 1..Len(fetches) : fetches[i].ok /\ fetches[i].year = startYear + i - 1

HasKind(lines, kind) == \E i \in 1..Len(lines) : lines[i].kind = kind

\* C6 as claimed: when the rendering of a year fails, a warning is logged, the
\* loop goes on with the later years, STL generation (art-only off) is still
\* invoked with that year's contributions, and the rendering's error is never
\* the error returned.
C6_Original ==
    \A i \in 1..Len(asciiCalls) :
       asciiCalls[i].err # Nil =>
          LET y == asciiCalls[i].year IN
          /\ y \in SeqElems(warnings)
          /\ ret # asciiCalls[i].err
          /\ pc = "done" =>
                /\ y < endYear => \E j \in 1..Len(fetches) : fetches[j].year = y + 1
                /\ ~artOnly =>
                      /\ Len(stlCalls) = 1
                      /\ Len(stlCalls[1].contributions) >= i
                      /\ stlCalls[1].contributions[i] = <<>>

\* C6, amended: when the rendering of a year fails, GenerateSkyline logs a
\* warning; if that succeeds the loop goes on with the next year, and once every
\* year of the range is fetched and every warning logged, STL generation
\* (art-only off) is invoked with the contributions of all the years, those of
\* the failed year included; if the warning cannot be logged GenerateSkyline
\* returns the logger's error at once, without generating the STL.  The
\* rendering's own error is never the error returned.
C6_AsciiFailureRecovered ==
    \A i \in 1..Len(asciiCalls) :
       asciiCalls[i].err # Nil =>
          LET y == asciiCalls[i].year IN
          /\ ret # asciiCalls[i].err
          /\ \/ y \in SeqElems(warnings)
             \/ pc = "done" /\ ret = LogError /\ i = Len(asciiCalls) /\ stlCalls = <<>>
          /\ (y \in SeqElems(warnings) /\ pc = "done" /\ y < endYear) =>
                \E j \in 1..Len(fetches) : fetches[j].year = y + 1
          /\ (pc = "done" /\ ~artOnly /\ AllFetched /\ ret # LogError) =>
                /\ Len(stlCalls) = 1
                /\ Len(stlCalls[1].contributions) = NumYears
                /\ stlCalls[1].contributions[y - startYear + 1] = <<>>

\* C6 witness: the first of two years failed to render, its warning was logged,
\* and the STL generator got both years.
C6_Witness ==
    /\ pc = "done"
    /\ Len(asciiCalls) = 2
    /\ asciiCalls[1].err # Nil
    /\ warnings = <<startYear>>
    /\ Len(stlCalls) = 1
    /\ Len(stlCalls[1].contributions) = 2
    /\ stlCalls[1].contributions[1] = <<>>

\* C7: if the fetch of any year fails, GenerateSkyline returns that error and
\* neither computes an output file name nor invokes STL generation, whatever was
\* fetched and previewed before; the STL generator is invoked at most once, and
\* only after every year of the range was fetched.
C7_FailFast ==
    /\ Len(stlCalls) <= 1
    /\ Len(outputPaths) <= 1
    /\ (\E i \in 1..Len(fetches) : ~fetches[i].ok) =>
          /\ ~fetches[Len(fetches)].ok
          /\ pc = "done"
          /\ ret.type = "wrapped"
          /\ ret.msg = "failed to fetch contributions"
          /\ stlCalls = <<>>
          /\ outputPaths = <<>>
    /\ stlCalls # <<>> => AllFetched

\* C7 witness: the second year's fetch failed after the first was previewed.
C7_Witness ==
    /\ pc = "done"
    /\ Len(fetches) = 2
    /\ fetches[1].ok
    /\ ~fetches[2].ok
    /\ Len(printed) = 1
    /\ ~artOnly
    /\ stlCalls = <<>>

\* C8 as claimed: with art-only off, only the first year's preview has the
\* header and the footer; the preview of a later year has grid lines only.
C8_Original ==
    ~artOnly =>
       \A i \in 1..Len(printed) :
          IF printed[i].year = startYear
          THEN HasKind(printed[i].shown, "header") /\ HasKind(printed[i].shown, "footer")
          ELSE \A k \in 1..Len(printed[i].shown) : printed[i].shown[k].kind = "grid"

\* C8, amended: with art-only off, only the first year's preview has the header;
\* the first year is printed whole, header and footer included; the preview of a
\* later year has no header line but does end with the footer, which is asked
\* for in every year.
C8_HeaderOnlyFirstYear ==
    ~artOnly =>
       \A i \in 1..Len(printed) :
          LET shown  == printed[i].shown
              footer == FooterLines(targetUser, printed[i].year)
          IN
          /\ Len(shown) >= Len(footer)
          /\ SubSeq(shown, Len(shown) - Len(footer) + 1, Len(shown)) = footer
          /\ IF printed[i].year = startYear
             THEN /\ shown = printed[i].lines
                  /\ Len(shown) >= Len(HeaderLines)
                  /\ SubSeq(shown, 1, Len(HeaderLines)) = HeaderLines
             ELSE ~HasKind(shown, "header")

\* C8 witness: a later year was printed, with its footer.
C8_Witness ==
    /\ ~artOnly
    /\ Len(printed) = 2
    /\ printed[1].year = startYear
    /\ printed[2].year = startYear + 1
    /\ HasKind(printed[1].shown, "header")
    /\ HasKind(printed[2].shown, "footer")
    /\ HasKind(printed[2].shown, "grid")

HasRuneIn(line, runes) == \E k \in 1..Len(line.runes) : line.runes[k] \in runes

\* C9 as claimed: the preview of a year after the first starts at the first line
\* of its rendering that holds a body or foundation rune (of any level), exactly
\* the lines before it are dropped, and no line holding the rune of a
\* contributing day is dropped.
C9_Original ==
    \A i \in 1..Len(printed) :
       printed[i].year # startYear =>
          LET lines   == printed[i].lines
              shown   == printed[i].shown
              dropped == Len(lines) - Len(shown)
              isBody(k) == lines[k].kind = "grid" /\ HasRuneIn(lines[k], BodyRunes)
          IN
          /\ (\E k \in 1..Len(lines) : isBody(k)) =>
                /\ isBody(dropped + 1)
                /\ \A k \in 1..dropped : ~isBody(k)
          /\ \A k \in 1..dropped :
                ~(lines[k].kind = "grid" /\ HasRuneIn(lines[k], BodyRunes \cup SpireRunes))

(***************************************************************************)
(* Properties of renderText.                                               *)
(***************************************************************************)
\* C10 as claimed: once the font file is written, renderText releases it (calls
\* the cleanup writeTempFont returned) on every way out: the normal return, a
\* font face that fails to load, a voxel cube that cannot be created.
C10_FontReleasedOnEveryExit ==
    (tpc = "done" /\ fontPath # "none") =>
        /\ fontPath \notin tempFiles
        /\ cleanupCalls = 1

\* C11: renderText writes the primary font first and the fallback font only
\* after the primary failed; with the fallback written, rendering goes on to
\* load that font and the primary's failure is not the error returned; with
\* both failing to be written it returns the I/O error "failed to load any
\* fonts" and no triangles; no font is written twice and a font face that
\* failed to load is not loaded again.
C11_FontFallback ==
    LET writes == SelectSeq(fontCalls, LAMBDA c : c.op = "writeTempFont")
        loads  == SelectSeq(fontCalls, LAMBDA c : c.op = "LoadFontFace")
        anyFonts == textRet.err.msg = "failed to load any fonts"
    IN
    /\ Len(writes) <= 2
    /\ Len(loads) <= 1
    /\ Len(writes) >= 1 => writes[1].font = "PrimaryFont"
    /\ Len(writes) = 2 => (~writes[1].ok /\ writes[2].font = "FallbackFont")
    /\ (Len(writes) = 1 /\ tpc # "font") => writes[1].ok
    /\ (Len(writes) = 2 /\ writes[2].ok) =>
          /\ fontPath = "FallbackFont"
          /\ ~anyFonts
          /\ tpc = "done" => (Len(loads) = 1 /\ loads[1].font = "FallbackFont")
          /\ (tpc = "done" /\ loads[1].ok /\ RPositive(face[1])) => textRet.err = Nil
    /\ (Len(writes) = 2 /\ ~writes[2].ok) =>
          /\ tpc = "done"
          /\ textRet.err.type = "IOError"
          /\ anyFonts
          /\ textRet.triangles = <<>>
          /\ loads = <<>>
    /\ anyFonts => (Len(writes) = 2 /\ ~writes[2].ok)
    /\ (loads # <<>> /\ ~loads[1].ok) =>
          /\ tpc = "done"
          /\ textRet.err.msg = "failed to load font"
          /\ textRet.triangles = <<>>

\* C11 witness: the primary font failed, the fallback was written and loaded,
\* and renderText returned triangles and no error.
C11_Witness ==
    /\ tpc = "done"
    /\ Len(fontCalls) = 3
    /\ ~fontCalls[1].ok
    /\ fontCalls[2] = FontCall("writeTempFont", "FallbackFont", TRUE)
    /\ fontCalls[3] = FontCall("LoadFontFace", "FallbackFont", TRUE)
    /\ textRet.err = Nil
    /\ textRet.triangles # <<>>

(***************************************************************************)
(* Properties of renderImage.                                              *)
(***************************************************************************)
\* The triangles of a rendering that belong to the voxel of source pixel p.
LogoTrianglesOf(call, p) ==
    LET voxel == LogoVoxel(p[1], p[2], logoScale, voxelDepth, logoLeftOffset,
                           logoTopOffset, call.face[1], call.face[2])
    IN  SelectSeq(call.result.triangles,
                  LAMBDA t : \E k \in 1..Len(voxel.triangles) : voxel.triangles[k] = t)

LogoPixels(call) == LogoCoords(<<call.image.width, call.image.height>>)

\* C12 as claimed: a source pixel gives one voxel (12 triangles) iff its alpha
\* and its red channel are both more than half of the channel's maximum 65535;
\* any other pixel gives nothing.
C12_Original ==
    (imageCall.called /\ imageCall.result.err = Nil /\ imageCall.fails = "none") =>
       \A p \in LogoPixels(imageCall) :
          LET c == imageCall.image.at[p] IN
          Len(LogoTrianglesOf(imageCall, p)) =
             IF 2 * c.a > ChannelMax /\ 2 * c.r > ChannelMax THEN 12 ELSE 0

\* C12, amended: a source pixel gives one voxel (12 triangles) iff its alpha and
\* its red channel are both greater than 32768, of the 16-bit values RGBA()
\* returns; any other pixel, one with a channel of exactly 32768 included, gives
\* nothing; the rendering holds nothing but these voxels, and green and blue do
\* not enter the decision.
C12_ImageThreshold ==
    (imageCall.called /\ imageCall.result.err = Nil /\ imageCall.fails = "none") =>
       /\ \A p \in LogoPixels(imageCall) :
             LET c == imageCall.image.at[p] IN
             Len(LogoTrianglesOf(imageCall, p)) =
                IF c.a > 32768 /\ c.r > 32768 THEN 12 ELSE 0
       /\ Len(imageCall.result.triangles) =
             12 * Cardinality({ p \in LogoPixels(imageCall) :
                                   imageCall.image.at[p].a > 32768
                                   /\ imageCall.image.at[p].r > 32768 })

\* C12 witness: an image of two pixels, one just above the cutoff with no green,
\* one with red at the cutoff, rendered as one voxel.
C12_Witness ==
    /\ imageCall.called
    /\ imageCall.fails = "none"
    /\ imageCall.result.err = Nil
    /\ imageCall.image.width = 2
    /\ imageCall.image.at[<<0, 0>>] = Color(32769, 0, 32769, 32769)
    /\ imageCall.image.at[<<1, 0>>] = Color(32768, 32768, 32768, ChannelMax)
    /\ Len(imageCall.result.triangles) = 12

(***************************************************************************)
(* Properties of createVoxelOnFace.                                        *)
(***************************************************************************)
\* The box of a triangle: where it starts and ends on the three axes.
LeftEdge(t)  == t.corner[1]
TopEdge(t)   == RAdd(t.corner[3], t.size[3])
DepthFrom(t) == t.corner[2]
DepthTo(t)   == RAdd(t.corner[2], t.size[2])

\* Where the claim puts the voxel of face coordinate (x, y) on a face W by H.
ClaimedLeft(x, W) == RMul(RDiv(x, RInt(2000)), W)
ClaimedTop(y, W, H) == RNeg(RMul(RDiv(y, RDiv(RMul(RInt(2000), H), W)), H))

OnClaimedPlace(t, x, y, depth, W, H) ==
    /\ LeftEdge(t) = ClaimedLeft(x, W)
    /\ TopEdge(t) = ClaimedTop(y, W, H)
    /\ DepthFrom(t) = RNeg(depth)
    /\ DepthTo(t) = RInt(0)

\* C13: createVoxelOnFace(x, y, depth, W, H) puts the voxel with its left edge
\* at (x / 2000) * W, its top edge (y / yRes) * H below the top of the face,
\* yRes = 2000 * H / W, and spanning [-depth, 0] out of the face; the place is
\* linear in x and y, and the voxels of a text and those of the logo are placed
\* by the same formula, from their pixel and from their scaled, offset pixel.
C13_PixelToPhysical ==
    /\ (voxelCall.called /\ voxelCall.result.err = Nil) =>
          /\ Len(voxelCall.result.triangles) = 12
          /\ \A k \in 1..12 :
                OnClaimedPlace(voxelCall.result.triangles[k], voxelCall.x, voxelCall.y,
                               voxelCall.height, voxelCall.face[1], voxelCall.face[2])
    /\ \A k \in 1..Len(textRet.triangles) :
          \E p \in SamplePixels :
             OnClaimedPlace(textRet.triangles[k], RInt(p[1]), RInt(p[2]), voxelDepth,
                            face[1], face[2])
    /\ (imageCall.called /\ imageCall.result.err = Nil) =>
          \A k \in 1..Len(imageCall.result.triangles) :
             \E p \in LogoPixels(imageCall) :
                LET W == imageCall.face[1]
                    H == imageCall.face[2]
                IN  OnClaimedPlace(imageCall.result.triangles[k],
                       RAdd(RMul(logoLeftOffset, RInt(2000)), RMul(RInt(p[1]), logoScale)),
                       RAdd(RMul(logoTopOffset, RInt(FaceHeightRes(W, H))),
                            RMul(RInt(p[2]), logoScale)),
                       voxelDepth, W, H)

\* C13 witness: pixel (1999, 3) on the face of 142.5 by 10 at depth 2: the left
\* edge is 1999 * 142.5 / 2000 = 113943/800, the top edge 3 * 142.5 / 2000 =
\* 171/800 below the top.
C13_Witness ==
    /\ voxelCall.called
    /\ voxelCall.x = RInt(1999)
    /\ voxelCall.y = RInt(3)
    /\ voxelCall.height = RInt(2)
    /\ voxelCall.face = <<RNorm(285, 2), RInt(10)>>
    /\ voxelCall.result.err = Nil
    /\ LeftEdge(voxelCall.result.triangles[1]) = <<113943, 800>>
    /\ TopEdge(voxelCall.result.triangles[1]) = <<-171, 800>>
    /\ DepthFrom(voxelCall.result.triangles[1]) = <<-2, 1>>

(***************************************************************************)
(* Properties of package utils.                                            *)
(***************************************************************************)
Parsed == utilsCall.called /\ utilsCall.op = "ParseYearRange"

\* C14: ParseYearRange of a valid text gives the years it names and no error:
\* "Y" gives (Y, Y) and "A-B" gives (A, B), for 2008 <= A <= B <= current year.
C14_ParseValid ==
    Parsed =>
       \A a \in Years, b \in Years :
          /\ utilsCall.yearRange = Itoa(a) => utilsCall.result = YearRange(a, a, Nil)
          /\ (a <= b /\ utilsCall.yearRange = Itoa(a) \o <<"-">> \o Itoa(b)) =>
                utilsCall.result = YearRange(a, b, Nil)

\* C14 witness: the range "2008-2009" was parsed as (2008, 2009).
C14_Witness ==
    /\ Parsed
    /\ utilsCall.yearRange = <<"2", "0", "0", "8", "-", "2", "0", "0", "9">>
    /\ utilsCall.result = YearRange(2008, 2009, Nil)

\* The parts of a text between its hyphens, and the parts that are numbers: an
\* optional sign and then one decimal digit or more.
PartsOf(text) ==
    LET cuts == <<0>> \o SelectSeq([i \in 1..Len(text) |-> i], LAMBDA i : text[i] = "-")
                     \o <<Len(text) + 1>>
    IN  [k \in 1..(Len(cuts) - 1) |-> SubSeq(text, cuts[k] + 1, cuts[k + 1] - 1)]

IsNumber(part) ==
    LET digits == IF part # <<>> /\ part[1] \in {"+", "-"} THEN Tail(part) ELSE part
    IN  digits # <<>> /\ \A i \in 1..Len(digits) : digits[i] \in Digits

\* C15: ParseYearRange of a text of more than two parts fails with the message
\* "invalid year range format"; of a text with a part that is empty or not a
\* number, it fails; both times the years returned are (0, 0).
C15_ParseMalformed ==
    Parsed =>
       LET parts == PartsOf(utilsCall.yearRange) IN
       /\ Len(parts) > 2 =>
             /\ utilsCall.result.err # Nil
             /\ utilsCall.result.err.msg = "invalid year range format"
             /\ utilsCall.result.startYear = 0 /\ utilsCall.result.endYear = 0
       /\ (\E k \in 1..Len(parts) : ~IsNumber(parts[k])) =>
             /\ utilsCall.result.err # Nil
             /\ utilsCall.result.startYear = 0 /\ utilsCall.result.endYear = 0

\* C15 witness: "2008-abc", whose first part is a valid year, failed with
\* (0, 0) and an error of the number parser.
C15_Witness ==
    /\ Parsed
    /\ utilsCall.yearRange = <<"2", "0", "0", "8", "-", "a", "b", "c">>
    /\ utilsCall.result = YearRange(0, 0, ErrSyntax)

\* C16: validateYearRange(start, end) returns an error if start < 2008, if
\* end > current year or if start > end, and nil in every other case: exactly
\* when 2008 <= start <= end <= current year.
C16_ValidateYearRange ==
    (utilsCall.called /\ utilsCall.op = "validateYearRange") =>
       LET start == utilsCall.startYear
           end   == utilsCall.endYear
       IN
       /\ (start < 2008 \/ end > CurrentYear \/ start > end) => utilsCall.result # Nil
       /\ (2008 <= start /\ start <= end /\ end <= CurrentYear) <=> utilsCall.result = Nil

\* C16 witness: two years in range, the start after the end, were refused.
C16_Witness ==
    /\ utilsCall.called
    /\ utilsCall.op = "validateYearRange"
    /\ utilsCall.startYear = CurrentYear
    /\ utilsCall.endYear = githubLaunchYear
    /\ utilsCall.result # Nil

\* C17: FormatYearRange(start, end) is the decimal start year when start = end,
\* and otherwise the start year in four digits, a hyphen and the last two
\* digits of the end year, a leading zero kept.
C17_FormatYearRange ==
    (utilsCall.called /\ utilsCall.op = "FormatYearRange") =>
       LET start == utilsCall.startYear
           end   == utilsCall.endYear
           four  == <<Digit((start \div 1000) % 10), Digit((start \div 100) % 10),
                      Digit((start \div 10) % 10), Digit(start % 10)>>
       IN  IF start = end
           THEN /\ utilsCall.result = Itoa(start)
                /\ start >= 1000 => utilsCall.result = four
           ELSE utilsCall.result =
                   four \o <<"-">> \o <<Digit((end \div 10) % 10), Digit(end % 10)>>

\* C17 witness: 2008 to 2105 is written "2008-05".
C17_Witness ==
    /\ utilsCall.called
    /\ utilsCall.op = "FormatYearRange"
    /\ utilsCall.startYear = 2008
    /\ utilsCall.endYear = 2105
    /\ utilsCall.result = <<"2", "0", "0", "8", "-", "0", "5">>

Named == utilsCall.called /\ utilsCall.op = "GenerateOutputFilename"

NameFromUserAndYears ==
    utilsCall.user \o <<"-">> \o FormatYearRange(utilsCall.startYear, utilsCall.endYear)
       \o <<"-", "g", "i", "t", "h", "u", "b", "-", "s", "k", "y", "l", "i", "n", "e",
            ".", "s", "t", "l">>

\* C18 as claimed: with an empty output the name is
\* <user>-<FormatYearRange(start, end)>-github-skyline.stl; a non-empty output
\* is returned with ".stl" appended if it does not end in ".stl", and as it is
\* if it does.
C18_Original ==
    Named =>
       LET output == utilsCall.output
           endsInStl == Len(output) >= 4
                        /\ SubSeq(output, Len(output) - 3, Len(output)) = <<".", "s", "t", "l">>
       IN  utilsCall.result =
              IF output = <<>> THEN NameFromUserAndYears
              ELSE IF endsInStl THEN output
              ELSE output \o <<".", "s", "t", "l">>

\* C18, amended: with an empty output the name is
\* <user>-<FormatYearRange(start, end)>-github-skyline.stl; a non-empty output
\* is returned as it is if it ends in ".stl" in any mix of upper and lower case
\* (".STL", ".Stl"), and with ".stl" appended otherwise; user and years play no
\* part then.
C18_OutputFilename ==
    Named =>
       LET output == utilsCall.output
           n      == Len(output)
           endsInStlAnyCase ==
               /\ n >= 4
               /\ output[n - 3] = "."
               /\ output[n - 2] \in {"s", "S"}
               /\ output[n - 1] \in {"t", "T"}
               /\ output[n] \in {"l", "L"}
       IN  utilsCall.result =
              IF output = <<>> THEN NameFromUserAndYears
              ELSE IF endsInStlAnyCase THEN output
              ELSE output \o <<".", "s", "t", "l">>

\* C18 witness: the output "o.STL" was returned as it is.
C18_Witness ==
    /\ Named
    /\ utilsCall.output = <<"o", ".", "S", "T", "L">>
    /\ utilsCall.result = utilsCall.output
    /\ utilsCall.startYear = 2008
    /\ utilsCall.endYear = 2009
    /\ utilsCall.user = <<"o", "c", "t">>

(***************************************************************************)
(* Properties of the art-only flag of GenerateSkyline.                     *)
(***************************************************************************)
NothingForTheFile ==
    /\ outputPaths = <<>>
    /\ stlCalls = <<>>
    /\ \A i \in 1..Len(asciiCalls) :
          ~asciiCalls[i].includeHeader /\ ~asciiCalls[i].includeUserInfo

\* C19 as claimed: with art-only set GenerateSkyline computes no output file
\* name, invokes no STL generator, asks for no header and no footer, and
\* returns nil once every year was fetched; with art-only clear and every fetch
\* successful it invokes an STL generator exactly once.
C19_Original ==
    /\ artOnly => NothingForTheFile
    /\ (artOnly /\ pc = "done" /\ AllFetched) => ret = Nil
    /\ (~artOnly /\ pc = "done" /\ AllFetched) => Len(stlCalls) = 1

\* C19, amended: with art-only set GenerateSkyline computes no output file name,
\* invokes no STL generator and asks for no header and no footer; once every
\* year was fetched it returns nil, unless the warning for a rendering that
\* failed could not be logged, and then it returns the logger's error.  With
\* art-only clear and every fetch successful it invokes an STL generator exactly
\* once, unless such a warning could not be logged, and then it invokes none.
C19_ArtOnly ==
    /\ artOnly => NothingForTheFile
    /\ (artOnly /\ pc = "done" /\ AllFetched) =>
          \/ ret = Nil
          \/ /\ ret = LogError
             /\ asciiCalls[Len(asciiCalls)].err # Nil
             /\ asciiCalls[Len(asciiCalls)].year \notin SeqElems(warnings)
    /\ (~artOnly /\ pc = "done" /\ AllFetched) =>
          IF ret = LogError /\ asciiCalls[Len(asciiCalls)].err # Nil
                            /\ asciiCalls[Len(asciiCalls)].year \notin SeqElems(warnings)
          THEN stlCalls = <<>>
          ELSE Len(stlCalls) = 1

\* C19 witness: two years were fetched and rendered with art-only set, and
\* GenerateSkyline returned nil with no file name and no STL call.
C19_Witness ==
    /\ artOnly
    /\ pc = "done"
    /\ Len(fetches) = 2
    /\ AllFetched
    /\ Len(printed) = 2
    /\ ret = Nil
    /\ NothingForTheFile

(***************************************************************************)
(* Monotonicity of the classification.                                     *)
(***************************************************************************)
LevelRank(level) ==
    CASE level = "Sky" -> 0 [] level = "Low" -> 1 [] level = "Medium" -> 2 [] OTHER -> 3

\* C20: for a fixed maximum m > 0 and counts 0 <= c1 < c2 <= m, the level of c1
\* is at most the level of c2, in the order Sky < Low < Medium < High.
C20_MonotonicLevel ==
    (blockCall.called /\ blockCall.maxCount > 0) =>
       \A c1 \in 0..(blockCall.count - 1) :
          LevelRank(LevelOfRune(getBlock(c1, blockCall.maxCount, blockCall.dayIdx,
                                         blockCall.nonZeroCount)))
             <= LevelRank(LevelOfRune(blockCall.block))

\* C20 witness: with a maximum of 3, the counts 1, 2 and 3 rise through Low,
\* Medium and High.
C20_Witness ==
    /\ blockCall.called
    /\ blockCall.maxCount = 3
    /\ blockCall.count = 3
    /\ LevelOfRune(blockCall.block) = "High"
    /\ LevelOfRune(getBlock(2, 3, blockCall.dayIdx, blockCall.nonZeroCount)) = "Medium"
    /\ LevelOfRune(getBlock(1, 3, blockCall.dayIdx, blockCall.nonZeroCount)) = "Low"

(***************************************************************************)
(* Properties of openGitHubProfile.                                        *)
(***************************************************************************)
\* C21: with a target user given, openGitHubProfile never asks the client and
\* hands Browse, once, "https://<host>/<targetUser>"; with none given, the URL
\* holds the authenticated user's login; if that lookup fails it returns a
\* network error and never calls Browse; an error of Browse is returned.
C21_OpenProfile ==
    profileCall.called =>
       LET r      == profileCall.result
           url(u) == <<"h", "t", "t", "p", "s", ":", "/", "/">> \o profileCall.hostname
                        \o <<"/">> \o u
       IN
       /\ profileCall.targetUser # <<>> =>
             /\ r.lookups = 0
             /\ r.browsed = <<url(profileCall.targetUser)>>
       /\ (profileCall.targetUser = <<>> /\ ~profileCall.client.fails) =>
             /\ r.lookups = 1
             /\ r.browsed = <<url(profileCall.client.username)>>
       /\ (profileCall.targetUser = <<>> /\ profileCall.client.fails) =>
             /\ r.err.type = "NetworkError"
             /\ r.browsed = <<>>
       /\ r.browsed # <<>> =>
             r.err = IF profileCall.browser.fails THEN BrowserError ELSE Nil

\* C21 witness: a target user was given while the client would have failed, and
\* the profile of the target user was opened without an error.
C21_Witness ==
    /\ profileCall.called
    /\ profileCall.targetUser = <<"h", "u", "b">>
    /\ profileCall.client.fails
    /\ profileCall.client.username = <<"o", "c", "t">>
    /\ ~profileCall.browser.fails
    /\ profileCall.result.err = Nil
    /\ Len(profileCall.result.browsed) = 1

(***************************************************************************)
(* Properties of the GitHub client.                                        *)
(***************************************************************************)
\* C22: FetchContributions rejects an empty username and a year before 2008
\* with a validation error and without a request to the API; a failure of the
\* API comes back as a network error and an empty login in the answer as a
\* validation error; with an error the response is nil, and without one the
\* response is the decoded answer.
C22_FetchValidation ==
    (githubCall.called /\ githubCall.op = "FetchContributions") =>
       LET r   == githubCall.result
           bad == githubCall.username = <<>> \/ githubCall.year < 2008
       IN
       /\ bad => (r.err.type = "ValidationError" /\ ~r.requested)
       /\ (~bad /\ githubCall.api.fails) => r.err.type = "NetworkError"
       /\ (~bad /\ ~githubCall.api.fails /\ githubCall.api.login = <<>>) =>
             r.err.type = "ValidationError"
       /\ r.err # Nil => r.response = <<>>
       /\ (~bad /\ ~githubCall.api.fails /\ githubCall.api.login # <<>>) =>
             /\ r.err = Nil
             /\ r.response = <<githubCall.api.login, githubCall.api.weeks>>

\* C22 witness: the year 2007 was asked of an API that would have answered, and
\* the call ended in a validation error with no request and no response.
C22_Witness ==
    /\ githubCall.called
    /\ githubCall.op = "FetchContributions"
    /\ githubCall.username = <<"o", "c", "t">>
    /\ githubCall.year = 2007
    /\ ~githubCall.api.fails
    /\ githubCall.api.login = <<"o", "c", "t">>
    /\ githubCall.result.err.type = "ValidationError"
    /\ ~githubCall.result.requested
    /\ githubCall.result.response = <<>>

(***************************************************************************)
(* Properties of the loop of GenerateSkyline over the years.               *)
(***************************************************************************)
\* C23: GenerateSkyline fetches the years in ascending order from startYear,
\* each once and none after endYear; before a year is fetched every earlier
\* year was fetched with success, appended to the list at its own index and
\* rendered, and then either printed or, its rendering having failed, logged
\* as a warning; the previews are printed in the order of the years; the list
\* handed to the STL generator holds the grid of year startYear+i at index i
\* for every year of the range.
C23_YearOrder ==
    comp = "skyline" =>
       LET n == Len(fetches)
           m == Len(allContributions)
       IN
       /\ \A i \in 1..n : fetches[i].year = startYear + i - 1 /\ fetches[i].year <= endYear
       /\ \A i \in 1..(n - 1) : fetches[i].ok
       /\ m = IF n > 0 /\ ~fetches[n].ok THEN n - 1 ELSE n
       /\ \A i \in 1..m : allContributions[i] = fetches[i].grid
       /\ Len(asciiCalls) = m
       /\ \A i \in 1..m :
             /\ asciiCalls[i].year = startYear + i - 1
             /\ (asciiCalls[i].err = Nil) <=>
                   \E p \in 1..Len(printed) : printed[p].year = asciiCalls[i].year
             /\ (i < n /\ asciiCalls[i].err # Nil) =>
                   \E w \in 1..Len(warnings) : warnings[w] = asciiCalls[i].year
       /\ \A p, q \in 1..Len(printed) : p < q => printed[p].year < printed[q].year
       /\ \A k \in 1..Len(stlCalls) :
             /\ Len(stlCalls[k].contributions) = endYear - startYear + 1
             /\ n = endYear - startYear + 1
             /\ \A i \in 1..n : stlCalls[k].contributions[i] = fetches[i].grid

\* C23 witness: two years with different calendars were fetched and printed in
\* their order, and the STL generator was handed the two grids in that order.
C23_Witness ==
    /\ comp = "skyline"
    /\ pc = "done"
    /\ Len(fetches) = 2
    /\ fetches[1].grid # fetches[2].grid
    /\ fetches[1].grid # <<>>
    /\ fetches[2].grid # <<>>
    /\ Len(printed) = 2
    /\ printed[1].year = startYear
    /\ printed[2].year = startYear + 1
    /\ Len(stlCalls) = 1
    /\ stlCalls[1].contributions = <<fetches[1].grid, fetches[2].grid>>

\* C23 as it was stated: every year fetched before another one has been
\* printed.
C23_Original ==
    comp = "skyline" =>
       \A i \in 1..(Len(fetches) - 1) :
          \E p \in 1..Len(printed) : printed[p].year = fetches[i].year

\* C26: GetUserJoinYear returns the validation error "invalid join date received
\* from GitHub API", and no year with a nil error, whenever the answer of the
\* API leaves createdAt unset; it rejects an empty username without a request
\* and returns a failure of the API as a network error.
C26_JoinYearUnset ==
    (githubCall.called /\ githubCall.op = "GetUserJoinYear") =>
       LET r == githubCall.result IN
       /\ githubCall.username = <<>> => (r.err.type = "ValidationError" /\ ~r.requested)
       /\ (githubCall.username # <<>> /\ githubCall.api.fails) =>
             r.err.type = "NetworkError"
       /\ (githubCall.username # <<>> /\ ~githubCall.api.fails
             /\ githubCall.api.createdAt = ZeroTime) =>
             /\ r.err.type = "ValidationError"
             /\ r.err.msg = "invalid join date received from GitHub API"

(***************************************************************************)
(* Properties of the full-lifetime mode of GenerateSkyline.                *)
(***************************************************************************)
\* C24: in full-lifetime mode the startYear and endYear arguments play no part:
\* the years fetched and previewed, the year whose rendering gets the header and
\* is printed whole, and the years of the output file name and of the STL call
\* are those of joinYear..currentYear; a failed lookup of the join year returns
\* a network error with no contributions fetched.
C24_FullLifetime ==
    (comp = "skyline" /\ joinCall.called) =>
       LET got      == joinCall.result
           joinYear == got.year
       IN
       /\ full
       /\ got.err # Nil =>
             /\ pc = "done"
             /\ ret.type = "NetworkError"
             /\ ret.msg = "failed to get user join year"
             /\ fetches = <<>>
             /\ printed = <<>>
             /\ stlCalls = <<>>
       /\ got.err = Nil =>
             /\ \A i \in 1..Len(fetches) :
                   /\ fetches[i].year = joinYear + i - 1
                   /\ fetches[i].year <= CurrentYear
             /\ \A i \in 1..Len(asciiCalls) :
                   asciiCalls[i].includeHeader = (asciiCalls[i].year = joinYear /\ ~artOnly)
             /\ \A p \in 1..Len(printed) :
                   /\ printed[p].year \in joinYear..CurrentYear
                   /\ printed[p].shown = Preview(printed[p].lines, printed[p].year = joinYear)
             /\ \A k \in 1..Len(stlCalls) :
                   /\ stlCalls[k].startYear = joinYear
                   /\ stlCalls[k].endYear = CurrentYear
                   /\ Len(stlCalls[k].contributions) = CurrentYear - joinYear + 1
                   /\ outputPaths[k] \in
                         { GenerateOutputFilename(targetUser, joinYear, CurrentYear, o) :
                              o \in Outputs }

\* C24 witness: called in full mode for the current year alone, by a user who
\* joined the year before, GenerateSkyline fetched and printed both years, the
\* join year with the header, and named the file after the two years.
C24_Witness ==
    /\ comp = "skyline"
    /\ pc = "done"
    /\ joinCall.called
    /\ joinCall.startYear = CurrentYear
    /\ joinCall.endYear = CurrentYear
    /\ joinCall.result.err = Nil
    /\ joinCall.result.year = CurrentYear - 1
    /\ Len(fetches) = 2
    /\ Len(printed) = 2
    /\ asciiCalls[1].includeHeader
    /\ ~asciiCalls[2].includeHeader
    /\ Len(stlCalls) = 1
    /\ outputPaths[1] = OutputFileFormat(targetUser,
                            FormatYearRange(CurrentYear - 1, CurrentYear))

\* C25: in full-lifetime mode a join year before 2008 is taken as it is: the
\* first fetch, of the join year, is rejected with the validation error of the
\* launch year, and GenerateSkyline returns an error with nothing rendered,
\* nothing printed and no STL generated; with a join year from 2008 to the
\* current year no fetch is rejected for its year, and a run that ends without
\* an error has fetched every year from the join year to the current year.
C25_JoinYearNotValidated ==
    (comp = "skyline" /\ joinCall.called /\ joinCall.result.err = Nil) =>
       LET joinYear == joinCall.result.year
           tooEarly == "year cannot be before GitHub's launch (2008)"
           answers  == [fails |-> FALSE, login |-> targetUser, weeks |-> <<>>]
       IN
       /\ joinYear < 2008 =>
             /\ startYear = joinYear
             /\ Len(fetches) <= 1
             /\ allContributions = <<>>
             /\ asciiCalls = <<>>
             /\ printed = <<>>
             /\ stlCalls = <<>>
             /\ pc \in {"loop", "done"}
             /\ pc = "loop" => (fetches = <<>> /\ year = joinYear)
             /\ pc = "done" =>
                   /\ Len(fetches) = 1
                   /\ fetches[1].year = joinYear
                   /\ fetches[1].err.type = "ValidationError"
                   /\ fetches[1].err.msg = tooEarly
                   /\ ret # Nil
                   /\ ret.cause = tooEarly
       /\ joinYear \in 2008..CurrentYear =>
             /\ \A i \in 1..Len(fetches) : fetches[i].err.msg # tooEarly
             /\ (pc = "loop" /\ year <= endYear) =>
                   FetchContributions(targetUser, year, answers).err = Nil
             /\ (pc = "done" /\ ret = Nil) =>
                   /\ Len(fetches) = CurrentYear - joinYear + 1
                   /\ \A i \in 1..Len(fetches) :
                         fetches[i].ok /\ fetches[i].year = joinYear + i - 1

\* C25 witness: a user who joined in 2007 asked for the full lifetime, and the
\* run ended with the fetch of 2007 rejected and nothing printed.
C25_Witness ==
    /\ comp = "skyline"
    /\ pc = "done"
    /\ full
    /\ joinCall.called
    /\ joinCall.result.err = Nil
    /\ joinCall.result.year = 2007
    /\ Len(fetches) = 1
    /\ fetches[1].year = 2007
    /\ fetches[1].err.type = "ValidationError"
    /\ ret.msg = "failed to fetch contributions"
    /\ printed = <<>>
    /\ stlCalls = <<>>

(***************************************************************************)
(* Further properties of package utils.                                    *)
(***************************************************************************)
\* C27: a nil error of ParseYearRange comes with years such that
\* 2008 <= startYear <= endYear <= current year; a text of one number, or of
\* two numbers and a hyphen, whose years are not such, gets an error; and the
\* command calls GenerateSkyline only with years that are such.
C27_ParsedRangeInBounds ==
    Parsed =>
       LET r          == utilsCall.result
           parts      == PartsOf(utilsCall.yearRange)
           wellFormed == Len(parts) \in {1, 2} /\ \A k \in 1..Len(parts) : IsNumber(parts[k])
           first      == Atoi(parts[1]).val
           last       == Atoi(parts[Len(parts)]).val
           inBounds(s, e) == 2008 <= s /\ s <= e /\ e <= CurrentYear
       IN
       /\ r.err = Nil => inBounds(r.startYear, r.endYear)
       /\ (wellFormed /\ ~inBounds(first, last)) => r.err # Nil
       /\ \A i \in 1..Len(utilsCall.cli.generated) :
             inBounds(utilsCall.cli.generated[i][1], utilsCall.cli.generated[i][2])
       /\ r.err # Nil => (utilsCall.cli.generated = <<>> /\ utilsCall.cli.err # Nil)

\* C27 witness: "2009-2008", two years in range in the wrong order, got an
\* error and no call of GenerateSkyline.
C27_Witness ==
    /\ Parsed
    /\ utilsCall.yearRange = <<"2", "0", "0", "9", "-", "2", "0", "0", "8">>
    /\ utilsCall.result.err # Nil
    /\ utilsCall.result.startYear = 2009
    /\ utilsCall.result.endYear = 2008
    /\ utilsCall.cli.generated = <<>>

\* Whether a name ends in ".stl", the letters in either case.
EndsInStlAnyCase(name) ==
    LET n == Len(name) IN
    /\ n >= 4
    /\ name[n - 3] = "."
    /\ name[n - 2] \in {"s", "S"}
    /\ name[n - 1] \in {"t", "T"}
    /\ name[n] \in {"l", "L"}

\* C28: the name GenerateOutputFilename returns always ends in ".stl", the
\* letters compared in either case; given back as the output it is returned as
\* it is; and an output that ends in ".STL" in any mix of cases is returned as
\* it is, with no second suffix.
C28_OutputFilenameIdempotent ==
    Named =>
       /\ EndsInStlAnyCase(utilsCall.result)
       /\ \A user \in Usernames \cup {<<>>}, s \in Years, e \in Years :
             GenerateOutputFilename(user, s, e, utilsCall.result) = utilsCall.result
       /\ EndsInStlAnyCase(utilsCall.output) => utilsCall.result = utilsCall.output

\* C28 witness: the output "o" became "o.stl", which given back stays "o.stl".
C28_Witness ==
    /\ Named
    /\ utilsCall.output = <<"o">>
    /\ utilsCall.result = <<"o", ".", "s", "t", "l">>
    /\ GenerateOutputFilename(utilsCall.user, utilsCall.startYear, utilsCall.endYear,
                              utilsCall.result) = <<"o", ".", "s", "t", "l">>

(***************************************************************************)
(* Properties of the voxels of the text pixels.                            *)
(***************************************************************************)
\* a <= b and a < b for rational numbers.
RLeq(a, b) == a[1] * b[2] <= b[1] * a[2]
RLess(a, b) == a[1] * b[2] < b[1] * a[2]

\* The rectangle a voxel covers on the face: from left to right, from bottom to top.
Footprint(triangle) ==
    [left   |-> triangle.corner[1],
     right  |-> RAdd(triangle.corner[1], triangle.size[1]),
     bottom |-> triangle.corner[3],
     top    |-> RAdd(triangle.corner[3], triangle.size[3])]

\* Two rectangles with a point inside both.
Overlap(f, g) ==
    /\ RLess(f.left, g.right) /\ RLess(g.left, f.right)
    /\ RLess(f.bottom, g.top) /\ RLess(g.bottom, f.top)

\* The columns, or rows, next to v and at both ends of 0..last.
Near(v, last) == (((v - 2)..(v + 2)) \cup {0, last}) \cap (0..last)

\* A createVoxelOnFace call for a pixel of the text image, at a positive depth.
TextPixelCall ==
    /\ voxelCall.called
    /\ RPositive(voxelCall.face[1]) /\ RPositive(voxelCall.face[2])
    /\ RPositive(voxelCall.height)
    /\ voxelCall.x[2] = 1 /\ voxelCall.x[1] \in 0..(baseWidthVoxelResolution - 1)
    /\ voxelCall.y[2] = 1
    /\ voxelCall.y[1] \in 0..(FaceHeightRes(voxelCall.face[1], voxelCall.face[2]) - 1)

\* C29: on a face of width W > 0 and height H > 0, the voxel of a text pixel
\* (x, y), 0 <= x < 2000 and 0 <= y < floor(2000 * H / W), is created without
\* an error, with positive extents; it covers a square of side W / 2000 on the
\* face, inside the rectangle [0, W] x [-H, 0], and overlaps the voxel of no
\* other pixel.
C29_VoxelsTileTheFace ==
    TextPixelCall =>
       LET W    == voxelCall.face[1]
           H    == voxelCall.face[2]
           r    == voxelCall.result
           side == RDiv(W, RInt(2000))
           rows == FaceHeightRes(W, H)
       IN
       /\ r.err = Nil
       /\ Len(r.triangles) = 12
       /\ \A k \in 1..Len(r.triangles) :
             LET t == r.triangles[k]
                 f == Footprint(t)
             IN
             /\ RPositive(t.size[1]) /\ RPositive(t.size[2]) /\ RPositive(t.size[3])
             /\ t.size[1] = side /\ t.size[3] = side
             /\ RLeq(RInt(0), f.left) /\ RLeq(f.right, W)
             /\ RLeq(RNeg(H), f.bottom) /\ RLeq(f.top, RInt(0))
             /\ \A x2 \in Near(voxelCall.x[1], baseWidthVoxelResolution - 1),
                   y2 \in Near(voxelCall.y[1], rows - 1) :
                   <<x2, y2>> # <<voxelCall.x[1], voxelCall.y[1]>> =>
                      LET other == createVoxelOnFace(RInt(x2), RInt(y2), voxelCall.height,
                                                     W, H)
                      IN  /\ other.err = Nil
                          /\ ~Overlap(f, Footprint(other.triangles[1]))

\* C29 witness: the pixel of the last column and last row of the face of 142.5
\* by 10 (2000 by 140 pixels): its voxel ends at the right edge of the face,
\* 142.5, and at 140 * 142.5 / 2000 = 9.975 below the top.
C29_Witness ==
    /\ TextPixelCall
    /\ voxelCall.face = <<RNorm(285, 2), RInt(10)>>
    /\ voxelCall.x = RInt(1999)
    /\ voxelCall.y = RInt(139)
    /\ voxelCall.result.err = Nil
    /\ Footprint(voxelCall.result.triangles[1]).right = <<285, 2>>
    /\ Footprint(voxelCall.result.triangles[1]).bottom = <<-399, 40>>

(***************************************************************************)
(* Properties of Create3DText.                                             *)
(***************************************************************************)
\* The pixel visited at the k-th place when the columns are gone through from
\* left to right and each column from top to bottom.
VisitedAt(pixels, k) ==
    CHOOSE p \in pixels :
       Cardinality({q \in pixels : q[1] < p[1] \/ (q[1] = p[1] /\ q[2] < p[2])}) = k - 1

\* Whether the rendering of a label fails on the face: for want of a font, or
\* for a pixel whose voxel cannot be created.
LabelFails(env, dims) ==
    \/ env.primaryFails /\ env.fallbackFails
    \/ env.loadFails
    \/ env.active # {} /\ ~(RPositive(dims[1]) /\ RPositive(dims[2]))

\* Whether twelve triangles from `from` on are those of the voxel of pixel p.
IsVoxelOf(tris, from, p, dims) ==
    \A k \in 1..12 :
       /\ tris[from + k].face = (k + 1) \div 2
       /\ LeftEdge(tris[from + k]) = RMul(RDiv(RInt(p[1]), RInt(2000)), dims[1])
       /\ TopEdge(tris[from + k]) = RNeg(RMul(RDiv(RInt(p[2]), RInt(2000)), dims[1]))

\* C30: Create3DText renders "anonymous" for an empty username; when both
\* labels are rendered it returns, with no error, the triangles of the username
\* and then those of the year, twelve for each active pixel, the pixels of a
\* label by increasing x and then increasing y; when a label fails to render
\* it returns the error and no triangle.
C30_LabelsInOrder ==
    labelCall.called =>
       LET r      == labelCall.result
           dims   == labelCall.face
           first  == labelCall.envs[1].active
           second == labelCall.envs[2].active
           n1     == Cardinality(first)
           n2     == Cardinality(second)
           fails1 == LabelFails(labelCall.envs[1], dims)
           fails2 == LabelFails(labelCall.envs[2], dims)
       IN
       /\ r.rendered[1].text =
             IF labelCall.username = <<>> THEN <<"a", "n", "o", "n", "y", "m", "o", "u", "s">>
             ELSE labelCall.username
       /\ (fails1 \/ fails2) => (r.err # Nil /\ r.triangles = <<>>)
       /\ fails1 => Len(r.rendered) = 1
       /\ ~(fails1 \/ fails2) =>
             /\ r.err = Nil
             /\ Len(r.rendered) = 2
             /\ r.rendered[2].text = labelCall.year
             /\ Len(r.triangles) = 12 * (n1 + n2)
             /\ \A k \in 1..n1 :
                   IsVoxelOf(r.triangles, 12 * (k - 1), VisitedAt(first, k), dims)
             /\ \A k \in 1..n2 :
                   IsVoxelOf(r.triangles, 12 * (n1 + k - 1), VisitedAt(second, k), dims)

\* C30 witness: for an empty username "anonymous" was drawn with two pixels,
\* (0, 0) and (1999, 0), and the year with one, (7, 139): 36 triangles came
\* back, those of the three pixels in that order.
C30_Witness ==
    /\ labelCall.called
    /\ labelCall.username = <<>>
    /\ labelCall.face = <<RNorm(285, 2), RInt(10)>>
    /\ labelCall.envs[1].active = {<<1999, 0>>, <<0, 0>>}
    /\ labelCall.envs[2].active = {<<7, 139>>}
    /\ labelCall.result.err = Nil
    /\ Len(labelCall.result.triangles) = 36
    /\ LeftEdge(labelCall.result.triangles[1]) = RInt(0)
    /\ LeftEdge(labelCall.result.triangles[13]) = <<113943, 800>>
    /\ LeftEdge(labelCall.result.triangles[25]) = <<399, 800>>

=============================================================================
